---------------------------- MODULE Spec2Model ----------------------------
(***************************************************************************)
(* A model of picosdk.library.Library (src/picosdk/library.py) with the    *)
(* ps4000a tables of src/picosdk/ps4000a.py.                               *)
(*                                                                         *)
(* The adapter is single-threaded and synchronous.  The native driver is   *)
(* the environment: every native call is answered by a nondeterministic    *)
(* choice among the answers a driver can give.                             *)
(*                                                                         *)
(* The model has five components,  selected by the variable `component`:    *)
(*   "resolve"      Library._resolve_range as a pure function              *)
(*   "set_channel"  Library.set_channel and Library._python_set_channel    *)
(*   "units"        list_units, open_unit, close_unit, get_unit_info       *)
(*   "capture"      run_block, stop and get_values                         *)
(*   "configure"    get_timebase, set_null_trigger, is_ready,              *)
(*                  maximum_value, memory_segments, set_digital_port and   *)
(*                  set_sig_gen_built_in                                   *)
(*                                                                         *)
(* Conventions.  Python's None and optional values are sequences: None is  *)
(* <<>> and a value v is <<v>>.  A C flag return (zero means failure) is   *)
(* one of "zero" and "nonzero", the two classes the code tells apart.  A   *)
(* PICO_STATUS code is the name of the status.                             *)
(***************************************************************************)
EXTENDS Integers, Sequences, FiniteSets, TLC

VARIABLES
    component,           \* which part of the adapter this behaviour exercises
    device,              \* the device argument of the operation called last
    \* ---- the driver's tables (Library.__init__, set by the driver module)
    PICO_VOLTAGE_RANGE,  \* dict range id -> max voltage, as its items() in order
    \* ---- _resolve_range as a function
    signal_peak,         \* argument signal_peak
    exclude,             \* argument exclude
    resolved,            \* what the call did: a result or an exception
    rr_pc,               \* "call" before the call, "done" after it
    \* ---- set_channel
    sc_pc,               \* "loop": at the while; "try": at the call; "returned"; "raised"
    sc_argtypes,         \* shape of the bound _set_channel entry point
    enabled,             \* argument enabled
    range_peak,          \* argument range_peak
    analog_offset,       \* argument analog_offset (optional)
    excluded,            \* local excluded, as the set of its members
    range_id,            \* local range_id of the latest attempt (optional)
    max_voltage,         \* local max_voltage (optional)
    sc_error,            \* the exception that left set_channel, or "none"
    attempts,            \* native set-channel calls issued, oldest first
    sc_last,             \* the driver's answer to the latest native call
    \* ---- the driver's units and the unit lifecycle operations
    open_argtypes,       \* len(self._open_unit.argtypes)
    info_argtypes,       \* len(self._get_unit_info.argtypes)
    units,               \* the connected units; a unit's handle is its number
    serial_of,           \* the serial of each connected unit
    driver_open,         \* the handles open in the driver
    devices,             \* the handles of the Device objects the client holds
    u_pc,                \* "idle", or the position inside a running operation
    u_op,                \* the operation running, or the last one that ended
    serial,              \* open_unit: argument serial (optional)
    keys,                \* get_unit_info: the requested keys
    handles,             \* list_units: local handles
    device_infos,        \* list_units: local device_infos
    open_handles,        \* _python_open_specific_unit: local open_handles
    temp_handle,         \* _python_open_specific_unit: local temp_handle
    handle,              \* _python_open_specific_unit: local handle
    idx,                 \* position of a `for ... in handles` loop
    u_raised,            \* the exception the last operation ended with, or "none"
    u_value,             \* what the last operation returned
    u_names,             \* the names an ArgumentOutOfRangeError message lists
    before,              \* driver_open when the running operation was called
    n_open,              \* native open calls of the running operation
    n_close,             \* native close calls of the running operation
    n_info,              \* native get-info calls of the running operation
    ou_handle,           \* _python_open_unit: local handle (optional)
    dispatched,          \* handles passed to native get-info and close calls
    close_status,        \* close_unit: what the native close call answered
    \* ---- stop and get_values
    stop_restype,        \* self._stop.restype
    gv_argtypes,         \* (len(_get_values.argtypes), _get_timebase.argtypes[1])
    cap_op,              \* the last capture operation called, or "none"
    cap_raised,          \* the exception it ended with, or "none"
    cap_native,          \* the native calls it issued, oldest first
    native_return,       \* what its last native call returned to Python
    active_channels,     \* get_values: argument active_channels
    overflow,            \* get_values: overflow.value after the native call
    overflow_warning,    \* get_values: the channels of the overflow_warning dict
    rb_argtypes,         \* len(self._run_block.argtypes)
    armed,               \* the driver accepted a run-block call and neither stop
                         \* nor get_values was called since
    armed_at_call,       \* `armed` when the last capture operation was called
    pico_channel,        \* self.PICO_CHANNEL: its string keys and its int keys
    digital_ports,       \* the values of <NAME>_DIGITAL_PORT0, 1, ...; <<>> if no table
    buffers,             \* get_values: the channel ids given to set-data-buffer calls
    rb_args,             \* run_block: its arguments
    rb_call,             \* run_block: the arguments of its native call
    \* ---- the other entry points of the driver and the operations on them
    bound,               \* the driver's entry points: name -> signature, or Absent
    tables,              \* the lookup tables the driver module defines
    cf_op,               \* the last of these operations called, or "none"
    cf_args,             \* its arguments
    cf_raised,           \* the exception it ended with, or "none"
    cf_native,           \* the native calls it issued, oldest first
    cf_return,           \* what its last native call answered
    cf_value             \* what it returned (optional)

vars_resolve == <<signal_peak, exclude, resolved, rr_pc>>
vars_set_channel == <<sc_pc, sc_argtypes, enabled, range_peak, analog_offset,
                      excluded, range_id, max_voltage, sc_error, attempts, sc_last>>
vars_driver == <<open_argtypes, info_argtypes, units, serial_of>>
vars_units == <<driver_open, devices, u_pc, u_op, serial, keys, handles, device_infos,
                open_handles, temp_handle, handle, idx, u_raised, u_value, u_names,
                before, n_open, n_close, n_info, ou_handle, dispatched,
                close_status>>
vars_capture == <<stop_restype, gv_argtypes, cap_op, cap_raised, cap_native,
                  native_return, active_channels, overflow, overflow_warning,
                  rb_argtypes, armed, armed_at_call, pico_channel, digital_ports,
                  buffers, rb_args, rb_call>>
vars_configure == <<bound, tables, cf_op, cf_args, cf_raised, cf_native, cf_return,
                    cf_value>>
vars == <<component, device, PICO_VOLTAGE_RANGE, vars_resolve, vars_set_channel,
          vars_driver, vars_units, vars_capture, vars_configure>>

(***************************************************************************)
(* Bounds of the model.                                                    *)
(***************************************************************************)
MaxVolt == 3        \* table voltages are 1..MaxVolt
MaxAttempts == 4    \* the log `attempts` keeps at most this many calls
MaxUnits == 2       \* at most this many units are connected
MaxActive == 2      \* get_values is asked for at most this many channels
MaxNanos == 3       \* a timebase query answers 0..MaxNanos nanoseconds
MaxDeciVolts == 60  \* voltage levels range over -MaxDeciVolts..MaxDeciVolts tenths of a volt

RangeIds == {0, 1, 2}
None == <<>>
Some(v) == <<v>>

(***************************************************************************)
(* requires_device: the decorator of every operation that takes a device.  *)
(* A Device holds the Library instance that opened it as its driver.       *)
(***************************************************************************)
\* what a caller may pass as device: a Device of this Library instance, a Device
\* of another one, and an object that is not a Device
DeviceArguments ==
    {[is_device |-> TRUE, driver |-> "self"],
     [is_device |-> TRUE, driver |-> "other"],
     [is_device |-> FALSE, driver |-> "none"]}
\* the operation called last takes no device
NoDevice == [is_device |-> FALSE, driver |-> "no argument"]
\* if not isinstance(device, Device) or device.driver != self: raise TypeError
RequiresDeviceInstanceOnly(dev) == IF ~dev.is_device THEN "TypeError" ELSE "none"
requires_device(dev) ==
    IF ~dev.is_device \/ dev.driver # "self" THEN "TypeError" ELSE "none"
\* check_device_impl(self, device, *args, **kwargs)
check_device_impl(Raise, Method) ==
    \E dev \in DeviceArguments :
       /\ device' = dev
       /\ IF requires_device(dev) = "TypeError" THEN Raise ELSE Method

\* float('inf'), the default range_peak: above every finite voltage.
Inf == MaxVolt + 1
Peaks == 0 .. Inf

(***************************************************************************)
(* Voltage-range tables: the items() of a dict, so the ids are distinct;   *)
(* no order of the ids or of the voltages is assumed.                      *)
(***************************************************************************)
Items == RangeIds \X (1 .. MaxVolt)
Tables ==
    {<<>>}
    \cup {<<a>> : a \in Items}
    \cup {t \in {<<a, b>> : a \in Items, b \in Items} : t[1][1] # t[2][1]}
    \cup {t \in {<<a, b, c>> : a \in Items, b \in Items, c \in Items} :
            /\ t[1][1] # t[2][1] /\ t[1][1] # t[3][1] /\ t[2][1] # t[3][1]}

TableIds(tbl) == {tbl[i][1] : i \in DOMAIN tbl}
VoltageOf(tbl, id) == tbl[CHOOSE i \in DOMAIN tbl : tbl[i][1] = id][2]

(***************************************************************************)
(* Library._resolve_range                                                  *)
(***************************************************************************)
\* list(filter(lambda tup: tup[1] >= signal_peak and tup[0] not in exclude, items()))
PossibilitiesIgnoringExclude(tbl, peak, excl) ==
    SelectSeq(tbl, LAMBDA tup : tup[2] >= peak)
Possibilities(tbl, peak, excl) ==
    SelectSeq(tbl, LAMBDA tup : tup[2] >= peak /\ tup[1] \notin excl)

\* min(possibilities, key=lambda i: i[1]): the first of the minimal items
FirstItem(s) == s[1]
RECURSIVE MinByVoltage(_)
MinByVoltage(s) ==
    IF Len(s) = 1 THEN s[1]
    ELSE LET m == MinByVoltage(Tail(s))
         IN  IF s[1][2] <= m[2] THEN s[1] ELSE m

resolve_range(tbl, peak, excl) ==
    LET possibilities == Possibilities(tbl, peak, excl)
    IN  IF possibilities = <<>>
        THEN [raised |-> "ArgumentOutOfRangeError", range_id |-> None, max_voltage |-> None]
        ELSE LET best == MinByVoltage(possibilities)
             IN  [raised |-> "none", range_id |-> Some(best[1]), max_voltage |-> Some(best[2])]

NotCalled == [raised |-> "not called", range_id |-> None, max_voltage |-> None]

(***************************************************************************)
(* Library._python_set_channel                                             *)
(***************************************************************************)
\* (len(self._set_channel.argtypes), self._set_channel.argtypes[1])
SetChannelArgtypes ==
    {<<5, "c_int16">>, <<5, "c_int32">>, <<6, "c_int32">>, <<4, "c_int16">>}
IsFlagForm(argtypes) == argtypes[1] = 5 /\ argtypes[2] = "c_int16"
IsStatusForm(argtypes) ==
    (argtypes[1] = 5 /\ argtypes[2] = "c_int32") \/ argtypes[1] = 6

SetChannelStatuses ==
    {"PICO_OK", "PICO_INVALID_VOLTAGE_RANGE", "PICO_INVALID_CHANNEL",
     "PICO_INVALID_PARAMETER"}
\* what the native entry point can answer, by the convention of its form
SetChannelAnswers(argtypes) ==
    IF IsFlagForm(argtypes) THEN {"zero", "nonzero"} ELSE SetChannelStatuses

\* whether _python_set_channel reaches the native call, and the offset it sends
SendsNative(argtypes, offset) ==
    \/ argtypes[1] = 6
    \/ (IsFlagForm(argtypes) \/ IsStatusForm(argtypes)) /\ offset = None
SentOffsetAsGiven(argtypes, offset) == offset
SentOffset(argtypes, offset) ==
    IF argtypes[1] = 6 THEN (IF offset = None THEN Some(0) ELSE offset) ELSE None

\* raise ValidRangeEnumValueNotValidForThisDevice(f"{self.PICO_VOLTAGE_RANGE[range_id]}V ..."):
\* building the message looks range_id up in the table
RangeRejected(tbl, rid) ==
    IF rid \in TableIds(tbl) THEN "ValidRangeEnumValueNotValidForThisDevice"
    ELSE "KeyError"

\* the status-code branch's decision on a status that is not PICO_OK
StatusFailureAlwaysRaises(tbl, rid, status, en) ==
    IF status = "PICO_INVALID_VOLTAGE_RANGE" THEN RangeRejected(tbl, rid)
    ELSE "ArgumentOutOfRangeError"
StatusFailureRetries(tbl, rid, status, en) == RangeRejected(tbl, rid)
StatusFailure(tbl, rid, status, en) ==
    IF status = "PICO_INVALID_VOLTAGE_RANGE" THEN RangeRejected(tbl, rid)
    ELSE IF status = "PICO_INVALID_CHANNEL" /\ en = 0 THEN "none"
    ELSE "ArgumentOutOfRangeError"

\* the exception _python_set_channel ends with ("none": it returns), given the
\* driver's answer to the native call when one is issued
python_set_channel(tbl, argtypes, en, offset, rid, answer) ==
    IF IsFlagForm(argtypes)
    THEN IF offset # None THEN "ArgumentOutOfRangeError"
         ELSE IF answer = "zero" THEN RangeRejected(tbl, rid)
         ELSE "none"
    ELSE IF IsStatusForm(argtypes)
    THEN IF argtypes[1] # 6 /\ offset # None THEN "ArgumentOutOfRangeError"
         ELSE IF answer # "PICO_OK" THEN StatusFailure(tbl, rid, answer, en)
         ELSE "none"
    ELSE "NotImplementedError"

(***************************************************************************)
(* Library.set_channel: an iteration of `while not reliably_resolved` is   *)
(* the choice of a range (SetChannelResolve) and then the call of          *)
(* _python_set_channel inside the try (SetChannelCall).  The local         *)
(* `excluded` is a tuple that only ever serves `not in`, so it is kept as  *)
(* the set of its members.  The log `attempts` stops growing at            *)
(* MaxAttempts entries.  channel_name and coupling are names of the        *)
(* driver's tables.                                                        *)
(***************************************************************************)
Logged(log, entry) == IF Len(log) < MaxAttempts THEN Append(log, entry) ELSE log
Flag(b) == IF b THEN 1 ELSE 0

\* the call of set_channel: the decorator, then excluded = (), max_voltage = None
SetChannelEnter ==
    /\ component = "set_channel"
    /\ sc_pc = "call"
    /\ check_device_impl(sc_pc' = "raised" /\ sc_error' = "TypeError",
                         sc_pc' = "loop" /\ UNCHANGED sc_error)
    /\ UNCHANGED <<component, PICO_VOLTAGE_RANGE, sc_argtypes, enabled, range_peak,
                   analog_offset, excluded, range_id, max_voltage, attempts, sc_last,
                   vars_resolve, vars_driver, vars_units, vars_capture, vars_configure>>

\* if enabled: range_id, max_voltage = self._resolve_range(range_peak, excluded)
\* else: range_id = 0; max_voltage = None
SetChannelResolveKeepsFirstVoltage ==
    /\ component = "set_channel"
    /\ sc_pc = "loop"
    /\ LET r == IF enabled
                THEN resolve_range(PICO_VOLTAGE_RANGE, range_peak, excluded)
                ELSE [raised |-> "none", range_id |-> Some(0), max_voltage |-> None]
       IN  IF r.raised # "none"
           THEN /\ sc_pc' = "raised"
                /\ sc_error' = r.raised
                /\ UNCHANGED <<range_id, max_voltage>>
           ELSE /\ sc_pc' = "try"
                /\ range_id' = r.range_id
                /\ max_voltage' = IF max_voltage = None THEN r.max_voltage ELSE max_voltage
                /\ UNCHANGED sc_error
    /\ UNCHANGED <<component, device, PICO_VOLTAGE_RANGE, sc_argtypes, enabled, range_peak,
                   analog_offset, excluded, attempts, sc_last, vars_resolve,
                   vars_driver, vars_units, vars_capture, vars_configure>>
SetChannelResolve ==
    /\ component = "set_channel"
    /\ sc_pc = "loop"
    /\ LET r == IF enabled
                THEN resolve_range(PICO_VOLTAGE_RANGE, range_peak, excluded)
                ELSE [raised |-> "none", range_id |-> Some(0), max_voltage |-> None]
       IN  IF r.raised # "none"
           THEN /\ sc_pc' = "raised"
                /\ sc_error' = r.raised
                /\ UNCHANGED <<range_id, max_voltage>>
           ELSE /\ sc_pc' = "try"
                /\ range_id' = r.range_id
                /\ max_voltage' = r.max_voltage
                /\ UNCHANGED sc_error
    /\ UNCHANGED <<component, device, PICO_VOLTAGE_RANGE, sc_argtypes, enabled, range_peak,
                   analog_offset, excluded, attempts, sc_last, vars_resolve,
                   vars_driver, vars_units, vars_capture, vars_configure>>

\* try: self._python_set_channel(...); reliably_resolved = True
\* except ValidRangeEnumValueNotValidForThisDevice: excluded += (range_id,)
SetChannelCall ==
    /\ component = "set_channel"
    /\ sc_pc = "try"
    /\ IF SendsNative(sc_argtypes, analog_offset)
       THEN \E answer \in SetChannelAnswers(sc_argtypes) :
              LET e == python_set_channel(PICO_VOLTAGE_RANGE, sc_argtypes, Flag(enabled),
                                          analog_offset, range_id[1], answer)
                  rejected == e = "ValidRangeEnumValueNotValidForThisDevice"
              IN  /\ sc_last' = answer
                  /\ attempts' = Logged(attempts,
                        [range_id |-> range_id[1],
                         enabled |-> Flag(enabled),
                         analog_offset |-> SentOffset(sc_argtypes, analog_offset)])
                  /\ sc_pc' = IF e = "none" THEN "returned"
                              ELSE IF rejected THEN "loop" ELSE "raised"
                  /\ sc_error' = IF rejected THEN "none" ELSE e
                  /\ excluded' = IF rejected THEN excluded \cup {range_id[1]} ELSE excluded
       ELSE /\ sc_pc' = "raised"
            /\ sc_error' = python_set_channel(PICO_VOLTAGE_RANGE, sc_argtypes, Flag(enabled),
                                              analog_offset, range_id[1], "none")
            /\ UNCHANGED <<excluded, attempts, sc_last>>
    /\ UNCHANGED <<component, device, PICO_VOLTAGE_RANGE, sc_argtypes, enabled, range_peak,
                   analog_offset, range_id, max_voltage, vars_resolve,
                   vars_driver, vars_units, vars_capture, vars_configure>>

(***************************************************************************)
(* The driver's units.  A native open call opens a unit that is connected  *)
(* and not yet open (with the serial asked for, when one is passed) and    *)
(* returns its handle; when there is none it returns 0 or -1.  A native    *)
(* close call closes the handle.                                           *)
(***************************************************************************)
Serials == {"S1", "S2"}
NativeOpen(wanted) ==
    LET free == {u \in units \ driver_open : wanted = None \/ serial_of[u] = wanted[1]}
    IN  IF free # {} THEN free ELSE {0, -1}

\* _python_close_unit: self._close_unit(c_int16(handle))
python_close_unit(open, h) == open \ {h}
\* what the native close call can answer to close_unit; it was handed back by
\* _python_close_unit and close_unit drops it
CloseStatuses == {"PICO_OK", "PICO_INVALID_HANDLE"}

\* the keys of self.PICO_INFO that library.py names, and the keys a caller may ask for
PICO_INFO == {"PICO_VARIANT_INFO", "PICO_BATCH_AND_SERIAL"}
RequestedKeys == PICO_INFO \cup {"NOT_A_KEY"}
KeyTuples ==
    {<<>>} \cup {<<a>> : a \in RequestedKeys}
           \cup {<<a, b>> : a \in RequestedKeys, b \in RequestedKeys}

\* _python_get_unit_info(handle, info_type): the strings it can return; "" when
\* the native call reports no data, and when neither info form is bound
InfoLine(h, line) == IF line = "PICO_BATCH_AND_SERIAL" THEN serial_of[h] ELSE "VARIANT"
InfoNativeCalls == IF info_argtypes \in {4, 5} THEN 1 ELSE 0
python_get_unit_info(h, line) ==
    IF info_argtypes \in {4, 5} THEN {InfoLine(h, line), ""} ELSE {""}
\* the handles given to native calls, after _python_get_unit_info(h, ...)
InfoDispatched(sent, h) == IF InfoNativeCalls > 0 THEN sent \cup {h} ELSE sent

others_units == <<component, PICO_VOLTAGE_RANGE, vars_resolve, vars_set_channel,
                  vars_driver, vars_capture, vars_configure>>

\* a public operation is entered
Begin(op) ==
    /\ component = "units"
    /\ u_pc = "idle"
    /\ u_op' = op
    /\ before' = driver_open

(***************************************************************************)
(* Library.list_units                                                      *)
(***************************************************************************)
ListUnitsCall ==
    /\ Begin("list_units")
    /\ device' = NoDevice
    /\ serial' = None /\ keys' = <<>>
    /\ handles' = <<>> /\ device_infos' = <<>>
    /\ u_pc' = "lu_loop"
    /\ u_raised' = "none" /\ u_value' = <<>> /\ u_names' = {}
    /\ n_open' = 0 /\ n_close' = 0 /\ n_info' = 0
    /\ ou_handle' = None /\ dispatched' = {}
    /\ close_status' = "none"
    /\ UNCHANGED <<driver_open, devices, open_handles, temp_handle, handle, idx,
                   others_units>>

\* one iteration of `while True`; _python_open_unit raises DeviceNotFoundError
\* when the handle is < 1, which ends the loop
ListUnitsOpen ==
    /\ component = "units"
    /\ u_pc = "lu_loop"
    /\ \E h \in NativeOpen(None) :
         /\ n_open' = n_open + 1
         /\ ou_handle' = Some(h)
         /\ IF h < 1
            THEN /\ u_pc' = "lu_close"
                 /\ idx' = 1
                 /\ UNCHANGED <<driver_open, handles, device_infos, n_info, dispatched>>
            ELSE \E v \in python_get_unit_info(h, "PICO_VARIANT_INFO"),
                    sn \in python_get_unit_info(h, "PICO_BATCH_AND_SERIAL") :
                   /\ driver_open' = driver_open \cup {h}
                   /\ device_infos' = Append(device_infos, [variant |-> v, serial |-> sn])
                   /\ handles' = Append(handles, h)
                   /\ n_info' = n_info + 2 * InfoNativeCalls
                   /\ dispatched' = InfoDispatched(dispatched, h)
                   /\ UNCHANGED <<u_pc, idx>>
    /\ UNCHANGED <<devices, u_op, serial, keys, open_handles, temp_handle, handle,
                   u_raised, u_value, u_names, before, n_close, close_status,
                   device, others_units>>

\* for handle in handles: self._python_close_unit(handle); then return device_infos
ListUnitsReturnWithoutClosing ==
    /\ component = "units"
    /\ u_pc = "lu_close"
    /\ u_pc' = "idle"
    /\ u_value' = device_infos
    /\ handles' = <<>> /\ device_infos' = <<>> /\ idx' = 1
    /\ UNCHANGED <<driver_open, n_close, devices, u_op, serial, keys, open_handles,
                   temp_handle, handle, u_raised, u_names, before, n_open, n_info,
                   ou_handle, dispatched, close_status, device, others_units>>
ListUnitsClose ==
    /\ component = "units"
    /\ u_pc = "lu_close"
    /\ IF idx <= Len(handles)
       THEN /\ driver_open' = python_close_unit(driver_open, handles[idx])
            /\ idx' = idx + 1
            /\ n_close' = n_close + 1
            /\ dispatched' = dispatched \cup {handles[idx]}
            /\ UNCHANGED <<u_pc, u_value, handles, device_infos>>
       ELSE /\ u_pc' = "idle"
            /\ u_value' = device_infos
            /\ handles' = <<>> /\ device_infos' = <<>> /\ idx' = 1
            /\ UNCHANGED <<driver_open, n_close, dispatched>>
    /\ UNCHANGED <<devices, u_op, serial, keys, open_handles, temp_handle, handle,
                   u_raised, u_names, before, n_open, n_info, ou_handle, close_status,
                   device, others_units>>

(***************************************************************************)
(* Library.open_unit: _python_open_unit, _python_open_any_unit and         *)
(* _python_open_specific_unit.  A driver whose open takes 3 parameters     *)
(* defines DEFAULT_RESOLUTION.  The serial passed by the caller is of the  *)
(* type the driver's info call returns.                                    *)
(***************************************************************************)
\* the end of _python_open_unit and of open_unit, for the handle h
OpenUnitEndsAcceptingZero(h) ==
    IF h < 0
    THEN /\ u_raised' = "DeviceNotFoundError"
         /\ u_value' = <<>>
         /\ UNCHANGED devices
    ELSE /\ u_raised' = "none"
         /\ u_value' = <<h>>
         /\ devices' = devices \cup {h}
OpenUnitEnds(h) ==
    IF h < 1
    THEN /\ u_raised' = "DeviceNotFoundError"
         /\ u_value' = <<>>
         /\ UNCHANGED devices
    ELSE /\ u_raised' = "none"
         /\ u_value' = <<h>>
         /\ devices' = devices \cup {h}

\* without a serial, or with a serial that the native open takes as a parameter
OpenUnitDirect ==
    /\ Begin("open_unit")
    /\ device' = NoDevice
    /\ \E sr \in {None} \cup {Some(x) : x \in Serials} :
         /\ sr = None \/ open_argtypes \in {2, 3}
         /\ serial' = sr
         /\ \E h \in NativeOpen(sr) :
              /\ driver_open' = IF h < 1 THEN driver_open ELSE driver_open \cup {h}
              /\ ou_handle' = Some(h)
              /\ OpenUnitEnds(h)
    /\ u_pc' = "idle"
    /\ keys' = <<>> /\ u_names' = {}
    /\ n_open' = 1 /\ n_close' = 0 /\ n_info' = 0
    /\ dispatched' = {} /\ close_status' = "none"
    /\ UNCHANGED <<handles, device_infos, open_handles, temp_handle, handle, idx,
                   others_units>>

\* with a serial that the native open does not take: handle = -1;
\* open_handles = []; temp_handle = self._open_unit()
OpenUnitLegacyCall ==
    /\ Begin("open_unit")
    /\ device' = NoDevice
    /\ open_argtypes \notin {2, 3}
    /\ \E sr \in Serials : serial' = Some(sr)
    /\ handle' = -1
    /\ open_handles' = <<>>
    /\ \E h \in NativeOpen(None) :
         /\ temp_handle' = h
         /\ driver_open' = IF h < 1 THEN driver_open ELSE driver_open \cup {h}
    /\ u_pc' = "os_loop"
    /\ keys' = <<>>
    /\ u_raised' = "none" /\ u_value' = <<>> /\ u_names' = {}
    /\ n_open' = 1 /\ n_close' = 0 /\ n_info' = 0
    /\ ou_handle' = None /\ dispatched' = {}
    /\ close_status' = "none"
    /\ UNCHANGED <<devices, handles, device_infos, idx, others_units>>

\* open_handles after a unit's serial was compared: a match leaves the loop
\* before the append
OpenHandlesAppendFirst(ohs, h, matched) == Append(ohs, h)
OpenHandlesAfter(ohs, h, matched) == IF matched THEN ohs ELSE Append(ohs, h)

\* one iteration of `while temp_handle > 0`
OpenUnitLegacyStep ==
    /\ component = "units"
    /\ u_pc = "os_loop"
    /\ IF temp_handle > 0
       THEN \E this_serial \in python_get_unit_info(temp_handle, "PICO_BATCH_AND_SERIAL") :
              LET matched == this_serial = serial[1]
              IN  /\ n_info' = n_info + InfoNativeCalls
                  /\ dispatched' = InfoDispatched(dispatched, temp_handle)
                  /\ open_handles' = OpenHandlesAfter(open_handles, temp_handle, matched)
                  /\ IF matched
                     THEN /\ handle' = temp_handle
                          /\ u_pc' = "os_close"
                          /\ idx' = 1
                          /\ UNCHANGED <<temp_handle, driver_open, n_open>>
                     ELSE /\ \E h \in NativeOpen(None) :
                               /\ temp_handle' = h
                               /\ driver_open' = IF h < 1 THEN driver_open
                                                 ELSE driver_open \cup {h}
                          /\ n_open' = n_open + 1
                          /\ UNCHANGED <<handle, u_pc, idx>>
       ELSE /\ u_pc' = "os_close"
            /\ idx' = 1
            /\ UNCHANGED <<n_info, open_handles, handle, temp_handle, driver_open, n_open,
                           dispatched>>
    /\ UNCHANGED <<devices, u_op, serial, keys, handles, device_infos, u_raised, u_value,
                   u_names, before, n_close, ou_handle, close_status, device,
                   others_units>>

\* for temp_handle in open_handles: self._python_close_unit(temp_handle); then
\* return handle, status to _python_open_unit
OpenUnitLegacyClose ==
    /\ component = "units"
    /\ u_pc = "os_close"
    /\ IF idx <= Len(open_handles)
       THEN /\ driver_open' = python_close_unit(driver_open, open_handles[idx])
            /\ idx' = idx + 1
            /\ n_close' = n_close + 1
            /\ dispatched' = dispatched \cup {open_handles[idx]}
            /\ UNCHANGED <<u_pc, u_raised, u_value, devices, open_handles, temp_handle,
                           handle, ou_handle>>
       ELSE /\ u_pc' = "idle"
            /\ ou_handle' = Some(handle)
            /\ OpenUnitEnds(handle)
            /\ open_handles' = <<>> /\ temp_handle' = 0 /\ handle' = -1 /\ idx' = 1
            /\ UNCHANGED <<driver_open, n_close, dispatched>>
    /\ UNCHANGED <<u_op, serial, keys, handles, device_infos, u_names, before, n_open,
                   n_info, close_status, device, others_units>>

(***************************************************************************)
(* Library.close_unit                                                      *)
(***************************************************************************)
\* the decorator refused the device: the operation raised TypeError
UnitsRejected ==
    /\ u_raised' = "TypeError"
    /\ u_pc' = "idle"
    /\ serial' = None /\ keys' = <<>>
    /\ u_value' = <<>> /\ u_names' = {}
    /\ n_open' = 0 /\ n_close' = 0 /\ n_info' = 0
    /\ ou_handle' = None /\ dispatched' = {} /\ close_status' = "none"
    /\ UNCHANGED <<driver_open, devices, handles, device_infos, open_handles,
                   temp_handle, handle, idx, others_units>>

CloseUnitMethod ==
    /\ \E h \in devices :
         /\ \E status \in CloseStatuses :
              /\ close_status' = status
              /\ driver_open' = IF status = "PICO_OK"
                                THEN python_close_unit(driver_open, h)
                                ELSE driver_open
         /\ devices' = devices \ {h}
         /\ dispatched' = {h}
    /\ ou_handle' = None
    /\ u_pc' = "idle"
    /\ serial' = None /\ keys' = <<>>
    /\ u_raised' = "none" /\ u_value' = <<>> /\ u_names' = {}
    /\ n_open' = 0 /\ n_close' = 1 /\ n_info' = 0
    /\ UNCHANGED <<handles, device_infos, open_handles, temp_handle, handle, idx,
                   others_units>>
CloseUnit ==
    /\ Begin("close_unit")
    /\ check_device_impl(UnitsRejected, CloseUnitMethod)

(***************************************************************************)
(* Library.get_unit_info: _python_get_unit_info_wrapper                    *)
(***************************************************************************)
\* list(set(keys) - set(self.PICO_INFO.keys()))
InvalidOfFirstKey(ks) == IF ks # <<>> /\ ks[1] \notin PICO_INFO THEN {ks[1]} ELSE {}
InvalidInfoLines(ks) == {ks[i] : i \in DOMAIN ks} \ PICO_INFO

\* the keys read before self.PICO_INFO[line] fails on a key it does not hold
ReadableKeys(ks) ==
    IF \A i \in DOMAIN ks : ks[i] \in PICO_INFO THEN ks
    ELSE SubSeq(ks, 1, (CHOOSE i \in DOMAIN ks :
                          /\ ks[i] \notin PICO_INFO
                          /\ \A j \in 1 .. (i - 1) : ks[j] \in PICO_INFO) - 1)

GetUnitInfoMethod ==
    /\ \E h \in devices, ks \in KeyTuples :
         /\ keys' = ks
         /\ IF InvalidInfoLines(ks) # {}
            THEN /\ u_raised' = "ArgumentOutOfRangeError"
                 /\ u_names' = InvalidInfoLines(ks)
                 /\ u_value' = <<>>
                 /\ n_info' = 0
                 /\ dispatched' = {}
            ELSE LET lines == IF ks = <<>>
                              THEN <<"PICO_VARIANT_INFO", "PICO_BATCH_AND_SERIAL">>
                              ELSE ReadableKeys(ks)
                     failed == Len(ReadableKeys(ks)) < Len(ks)
                 IN  /\ u_raised' = IF failed THEN "KeyError" ELSE "none"
                     /\ u_names' = {}
                     /\ n_info' = Len(lines) * InfoNativeCalls
                     /\ dispatched' = IF Len(lines) > 0 THEN InfoDispatched({}, h) ELSE {}
                     /\ \E got \in [DOMAIN lines -> python_get_unit_info(h, "PICO_BATCH_AND_SERIAL")
                                                    \cup python_get_unit_info(h, "PICO_VARIANT_INFO")] :
                          /\ \A i \in DOMAIN lines : got[i] \in python_get_unit_info(h, lines[i])
                          /\ u_value' = IF failed THEN <<>> ELSE got
    /\ u_pc' = "idle"
    /\ serial' = None
    /\ n_open' = 0 /\ n_close' = 0
    /\ ou_handle' = None /\ close_status' = "none"
    /\ UNCHANGED <<driver_open, devices, handles, device_infos, open_handles,
                   temp_handle, handle, idx, others_units>>
GetUnitInfo ==
    /\ Begin("get_unit_info")
    /\ check_device_impl(UnitsRejected, GetUnitInfoMethod)

(***************************************************************************)
(* Library.stop.  A foreign function whose restype is a fundamental ctypes *)
(* type returns a native Python int; `type` is the class of the object     *)
(* the call returned, `value` its value: "zero" or "nonzero" in the flag   *)
(* convention, the status in the status convention.                        *)
(***************************************************************************)
StopStatuses == {"PICO_OK", "PICO_INVALID_HANDLE"}
StopReturns(restype) ==
    IF restype = "c_int16"
    THEN {[type |-> "int", value |-> v] : v \in {"zero", "nonzero"}}
    ELSE {[type |-> "int", value |-> v] : v \in StopStatuses}

\* if self._stop.restype == c_int16:
\*     if isinstance(return_code, c_int16) and return_code == 0: raise
\* else: if status != self.PICO_STATUS['PICO_OK']: raise
stop_raises(restype, ret) ==
    IF restype = "c_int16"
    THEN IF ret.type = "c_int16" /\ ret.value = "zero"
         THEN "InvalidCaptureParameters" ELSE "none"
    ELSE IF ret.value # "PICO_OK" THEN "InvalidCaptureParameters" ELSE "none"

\* the arguments of run_block, and of the native call it issues: each one is
\* given or not; `callbacks` are the trailing callback arguments
NoRunBlockArgs ==
    [pre_samples |-> 0, post_samples |-> 0, timebase_id |-> 0, oversample |-> 0,
     segment_index |-> 0]
NoRunBlockCall ==
    [nargs |-> 0, no_of_samples |-> None, pre_samples |-> None, post_samples |-> None,
     timebase_id |-> None, oversample |-> None, segment_index |-> None,
     callbacks |-> <<>>]

others_capture == <<component, PICO_VOLTAGE_RANGE, vars_resolve, vars_set_channel,
                    vars_driver, vars_units, vars_configure>>

\* the caller has the outcome of the last operation and may call the next one
CaptureReturn ==
    /\ component = "capture"
    /\ cap_op # "none"
    /\ cap_op' = "none" /\ cap_raised' = "none" /\ cap_native' = <<>>
    /\ native_return' = [type |-> "int", value |-> "none"]
    /\ active_channels' = <<>> /\ overflow' = 0 /\ overflow_warning' = {}
    /\ armed_at_call' = FALSE
    /\ device' = NoDevice
    /\ buffers' = <<>> /\ rb_args' = NoRunBlockArgs /\ rb_call' = NoRunBlockCall
    /\ UNCHANGED <<stop_restype, gv_argtypes, rb_argtypes, armed, pico_channel,
                   digital_ports, others_capture>>

\* the decorator refused the device: the operation raised TypeError
CaptureRejected ==
    /\ cap_raised' = "TypeError"
    /\ cap_native' = <<>>
    /\ native_return' = [type |-> "int", value |-> "none"]
    /\ active_channels' = <<>> /\ overflow' = 0 /\ overflow_warning' = {}
    /\ buffers' = <<>> /\ rb_args' = NoRunBlockArgs /\ rb_call' = NoRunBlockCall
    /\ armed_at_call' = armed
    /\ UNCHANGED <<armed, stop_restype, gv_argtypes, rb_argtypes, pico_channel,
                   digital_ports, others_capture>>

StopMethod ==
    /\ armed_at_call' = armed /\ armed' = FALSE
    /\ \E ret \in StopReturns(stop_restype) :
         /\ native_return' = ret
         /\ cap_raised' = stop_raises(stop_restype, ret)
    /\ cap_native' = <<"stop">>
    /\ active_channels' = <<>> /\ overflow' = 0 /\ overflow_warning' = {}
    /\ buffers' = <<>> /\ rb_args' = NoRunBlockArgs /\ rb_call' = NoRunBlockCall
    /\ UNCHANGED <<stop_restype, gv_argtypes, rb_argtypes, pico_channel, digital_ports,
                   others_capture>>
Stop ==
    /\ component = "capture"
    /\ cap_op = "none"
    /\ cap_op' = "stop"
    /\ check_device_impl(CaptureRejected, StopMethod)

(***************************************************************************)
(* Library.get_values                                                      *)
(***************************************************************************)
\* ps4000a.PICO_CHANNEL
PICO_CHANNEL ==
    ("A" :> 0) @@ ("B" :> 1) @@ ("C" :> 2) @@ ("D" :> 3) @@
    ("E" :> 4) @@ ("F" :> 5) @@ ("G" :> 6) @@ ("H" :> 7)
ChannelNames == DOMAIN PICO_CHANNEL

\* the lists of distinct channel names a caller may pass
RECURSIVE ChannelLists(_)
ChannelLists(n) ==
    IF n = 0 THEN {<<>>}
    ELSE LET shorter == ChannelLists(n - 1)
         IN  shorter \cup {Append(l, c) : l \in {x \in shorter : Len(x) = n - 1},
                                          c \in ChannelNames}
Distinct(l) == \A i, j \in DOMAIN l : i # j => l[i] # l[j]

\* the bit fields the driver may write to overflow: one bit per channel
OverflowValues == 0 .. (2 ^ Cardinality(ChannelNames) - 1)

\* Python's x >> k, x << k and x & y on non-negative integers
ShiftRight(x, k) == x \div (2 ^ k)
ShiftLeft(x, k) == x * (2 ^ k)
RECURSIVE BitAnd(_, _)
BitAnd(x, y) ==
    IF x = 0 \/ y = 0 THEN 0
    ELSE (x % 2) * (y % 2) + 2 * BitAnd(x \div 2, y \div 2)

\* overflow.value & (1 >> self.PICO_CHANNEL[channel])
OverflowBitTest(value, channel) == BitAnd(value, ShiftRight(1, PICO_CHANNEL[channel]))

\* the overflow_warning dict: built only `if overflow.value`
OverflowWarning(value, channels) ==
    IF value # 0
    THEN {channels[i] : i \in {j \in DOMAIN channels : OverflowBitTest(value, channels[j]) # 0}}
    ELSE {}

GetValuesArgtypes == {<<7, "c_int16">>, <<7, "c_uint32">>, <<6, "c_int16">>}

\* self.PICO_CHANNEL as the driver module leaves it
ChannelTable == [named |-> PICO_CHANNEL, numbered |-> <<>>]
\* a driver's <NAME>_DIGITAL_PORT table: none, or the ports 0 and 1
DigitalPortTables == {<<>>, <<128, 129>>}
\* available_channels = self.PICO_CHANNEL
\* for digital_port, value in digital_ports.items():
\*     available_channels[int(digital_port[-1])] = value
WithDigitalPorts(table, ports) ==
    [named |-> table.named,
     numbered |-> [k \in DOMAIN table.numbered \cup {i - 1 : i \in DOMAIN ports} |->
                     IF k + 1 \in DOMAIN ports THEN ports[k + 1] ELSE table.numbered[k]]]
\* available_channels[channel] of the first k set-data-buffer calls
BuffersOfFirstChannel(table, chs, k) == [i \in 1 .. k |-> table.named[chs[1]]]
BuffersRegistered(table, chs, k) == [i \in 1 .. k |-> table.named[chs[i]]]
GetValuesStatuses == {"PICO_OK", "PICO_NO_SAMPLES_AVAILABLE"}

\* the legacy form: one native call with the buffers of A, B, C and D
GetValuesLegacy(chs) ==
    /\ gv_argtypes = <<7, "c_int16">>
    /\ cap_native' = <<"get_values">>
    /\ buffers' = <<>>
    /\ UNCHANGED pico_channel
    /\ \E ret \in {"zero", "nonzero"} :
         /\ native_return' = [type |-> "int", value |-> ret]
         /\ IF ret = "zero"
            THEN /\ cap_raised' = "InvalidCaptureParameters"
                 /\ overflow' = 0 /\ overflow_warning' = {}
            ELSE /\ cap_raised' = "none"
                 /\ \E ov \in OverflowValues :
                      /\ overflow' = ov
                      /\ overflow_warning' = OverflowWarning(ov, chs)

\* the current form: a set-data-buffer call per channel, then one get-values call
GetValuesCurrent(chs) ==
    /\ gv_argtypes = <<7, "c_uint32">>
    /\ pico_channel' = WithDigitalPorts(pico_channel, digital_ports)
    /\ \E registered \in 0 .. Len(chs) :
         IF registered < Len(chs)
         THEN \* the set-data-buffer call after `registered` good ones fails
              /\ buffers' = BuffersRegistered(pico_channel', chs, registered + 1)
              /\ cap_native' = [i \in 1 .. (registered + 1) |-> "set_data_buffer"]
              /\ native_return' = [type |-> "int", value |-> "PICO_INVALID_CHANNEL"]
              /\ cap_raised' = "InvalidCaptureParameters"
              /\ overflow' = 0 /\ overflow_warning' = {}
         ELSE /\ buffers' = BuffersRegistered(pico_channel', chs, Len(chs))
              /\ cap_native' = [i \in 1 .. (Len(chs) + 1) |->
                                  IF i <= Len(chs) THEN "set_data_buffer" ELSE "get_values"]
              /\ \E status \in GetValuesStatuses :
                   /\ native_return' = [type |-> "int", value |-> status]
                   /\ IF status # "PICO_OK"
                      THEN /\ cap_raised' = "InvalidCaptureParameters"
                           /\ overflow' = 0 /\ overflow_warning' = {}
                      ELSE /\ cap_raised' = "none"
                           /\ \E ov \in OverflowValues :
                                /\ overflow' = ov
                                /\ overflow_warning' = OverflowWarning(ov, chs)

\* neither form: no native call, overflow keeps its initial 0
GetValuesNeither(chs) ==
    /\ gv_argtypes \notin {<<7, "c_int16">>, <<7, "c_uint32">>}
    /\ cap_native' = <<>>
    /\ buffers' = <<>>
    /\ UNCHANGED pico_channel
    /\ native_return' = [type |-> "int", value |-> "none"]
    /\ cap_raised' = "none"
    /\ overflow' = 0
    /\ overflow_warning' = OverflowWarning(0, chs)

GetValuesMethod ==
    /\ \E chs \in {l \in ChannelLists(MaxActive) : Distinct(l)} :
         /\ active_channels' = chs
         /\ \/ GetValuesLegacy(chs)
            \/ GetValuesCurrent(chs)
            \/ GetValuesNeither(chs)
    /\ armed_at_call' = armed /\ armed' = FALSE
    /\ rb_args' = NoRunBlockArgs /\ rb_call' = NoRunBlockCall
    /\ UNCHANGED <<stop_restype, gv_argtypes, rb_argtypes, digital_ports, others_capture>>
GetValues ==
    /\ component = "capture"
    /\ cap_op = "none"
    /\ cap_op' = "get_values"
    /\ check_device_impl(CaptureRejected, GetValuesMethod)

(***************************************************************************)
(* Library.run_block: _python_run_block.  The 5-parameter form answers     *)
(* with a flag, the 8- and 9-parameter forms with a status.  The library   *)
(* keeps no record of a capture it has armed.                              *)
(***************************************************************************)
RunBlockArgtypes == {5, 8, 9, 7}
RunBlockStatuses == {"PICO_OK", "PICO_INVALID_PARAMETER"}
RunBlockAnswers(argtypes) ==
    IF argtypes = 5 THEN {"zero", "nonzero"}
    ELSE IF argtypes \in {8, 9} THEN RunBlockStatuses
    ELSE {"none"}
\* the exception _python_run_block ends with, "none" when it returns
python_run_block(argtypes, answer) ==
    IF argtypes = 5
    THEN IF answer = "zero" THEN "InvalidCaptureParameters" ELSE "none"
    ELSE IF argtypes \in {8, 9}
    THEN IF answer # "PICO_OK" THEN "InvalidCaptureParameters" ELSE "none"
    ELSE "NotImplementedError"

\* the arguments a caller may pass; timebase ids and segment indexes are those
\* of get_timebase too
TimebaseIds == {1, 2}
SegmentIndexes == {0, 1}
PreSamples == {1, 2}
PostSamples == {4}
Oversamples == {1, 2}
RunBlockArgs ==
    [pre_samples : PreSamples, post_samples : PostSamples, timebase_id : TimebaseIds,
     oversample : Oversamples, segment_index : SegmentIndexes]
\* args = (handle, ..., time_indisposed, ...) of each form, less the handle and
\* the out-parameter time_indisposed
RunBlockPassesPreOnly(argtypes, args) ==
    [NoRunBlockCall EXCEPT !.nargs = argtypes,
                           !.no_of_samples = Some(args.pre_samples)]
python_run_block_args(argtypes, args) ==
    IF argtypes = 5
    THEN [NoRunBlockCall EXCEPT !.nargs = 5,
                                !.no_of_samples = Some(args.pre_samples + args.post_samples),
                                !.timebase_id = Some(args.timebase_id),
                                !.oversample = Some(args.oversample)]
    ELSE IF argtypes = 8
    THEN [NoRunBlockCall EXCEPT !.nargs = 8,
                                !.pre_samples = Some(args.pre_samples),
                                !.post_samples = Some(args.post_samples),
                                !.timebase_id = Some(args.timebase_id),
                                !.segment_index = Some(args.segment_index),
                                !.callbacks = <<None, None>>]
    ELSE IF argtypes = 9
    THEN [NoRunBlockCall EXCEPT !.nargs = 9,
                                !.pre_samples = Some(args.pre_samples),
                                !.post_samples = Some(args.post_samples),
                                !.timebase_id = Some(args.timebase_id),
                                !.oversample = Some(args.oversample),
                                !.segment_index = Some(args.segment_index),
                                !.callbacks = <<None, None>>]
    ELSE NoRunBlockCall

RunBlockMethod ==
    /\ armed_at_call' = armed
    /\ \E args \in RunBlockArgs :
         /\ rb_args' = args
         /\ rb_call' = python_run_block_args(rb_argtypes, args)
    /\ buffers' = <<>>
    /\ \E answer \in RunBlockAnswers(rb_argtypes) :
         /\ native_return' = [type |-> "int", value |-> answer]
         /\ cap_raised' = python_run_block(rb_argtypes, answer)
         /\ cap_native' = IF answer = "none" THEN <<>> ELSE <<"run_block">>
         /\ armed' = (armed \/ answer \in {"nonzero", "PICO_OK"})
    /\ active_channels' = <<>> /\ overflow' = 0 /\ overflow_warning' = {}
    /\ UNCHANGED <<stop_restype, gv_argtypes, rb_argtypes, pico_channel, digital_ports,
                   others_capture>>
RunBlock ==
    /\ component = "capture"
    /\ cap_op = "none"
    /\ cap_op' = "run_block"
    /\ check_device_impl(CaptureRejected, RunBlockMethod)

(***************************************************************************)
(* The driver module: the entry points it registers with make_symbol and   *)
(* the lookup tables it defines.  A signature is the pair                  *)
(* (len(argtypes), argtypes[1]); an entry point the driver does not        *)
(* register is Absent (hasattr is false).  A driver is the ps4000a module  *)
(* or differs from it in the entry points and tables of one operation.     *)
(***************************************************************************)
Absent == <<>>
\* the make_symbol calls of ps4000a.py
Ps4000aBound ==
    [get_timebase |-> <<6, "c_uint32">>,
     get_timebase2 |-> <<6, "c_uint32">>,
     set_trigger |-> Absent,
     set_simple_trigger |-> <<7, "c_int16">>,
     ready |-> Absent,
     is_ready |-> <<2, "c_void_p">>,
     maximum_value |-> <<2, "c_void_p">>,
     memory_segments |-> <<3, "c_uint32">>,
     set_digital_port |-> Absent,
     set_sig_gen_built_in |-> <<15, "c_int32">>]
\* the tables of ps4000a.py that library.py looks up by the driver's prefix;
\* PICO_THRESHOLD_DIRECTION stays the empty dict of Library.__init__
SigGenBasicTables == {"WAVE_TYPE", "SWEEP_TYPE"}
SigGenTriggerTables == {"SIGGEN_TRIG_TYPE", "SIGGEN_TRIG_SOURCE", "EXTRA_OPERATIONS"}
Ps4000aTables == {"THRESHOLD_DIRECTION"} \cup SigGenBasicTables \cup SigGenTriggerTables
Ps4000a == [bound |-> Ps4000aBound, tables |-> Ps4000aTables]
\* the ps4000a entry points of the other components, as those components see
\* them: len(argtypes) of _open_unit, _get_unit_info and _run_block, the shape
\* of _set_channel, the restype of _stop, and (len(_get_values.argtypes),
\* _get_timebase.argtypes[1])
Ps4000aOther ==
    [open_unit |-> 2, get_unit_info |-> 5, set_channel |-> <<6, "c_int32">>,
     run_block |-> 8, stop |-> "c_uint32", get_values |-> <<7, "c_uint32">>]

\* other drivers: the entry point, its signature, and the tables defined
Alternatives ==
    {<<"get_timebase", <<7, "c_int16">>, Ps4000aTables>>,
     <<"get_timebase2", <<7, "c_uint32">>, Ps4000aTables>>,
     <<"get_timebase2", Absent, Ps4000aTables>>,
     <<"set_trigger", <<6, "c_int16">>, Ps4000aTables>>,
     <<"set_simple_trigger", Absent, Ps4000aTables>>,
     <<"set_simple_trigger", <<6, "c_int16">>, Ps4000aTables>>,
     <<"set_simple_trigger", <<7, "c_int16">>, Ps4000aTables \ {"THRESHOLD_DIRECTION"}>>,
     <<"set_simple_trigger", <<7, "c_int16">>, Ps4000aTables \cup {"PICO_THRESHOLD_DIRECTION"}>>,
     <<"ready", <<1, "c_int16">>, Ps4000aTables>>,
     <<"is_ready", Absent, Ps4000aTables>>,
     <<"is_ready", <<3, "c_void_p">>, Ps4000aTables>>,
     <<"maximum_value", Absent, Ps4000aTables>>,
     <<"memory_segments", Absent, Ps4000aTables>>,
     <<"set_digital_port", <<4, "c_int32">>, Ps4000aTables \cup {"DIGITAL_PORT"}>>,
     <<"set_digital_port", <<4, "c_int32">>, Ps4000aTables>>,
     <<"set_digital_port", <<3, "c_int32">>, Ps4000aTables \cup {"DIGITAL_PORT"}>>,
     <<"set_sig_gen_built_in", <<10, "c_int32">>, Ps4000aTables>>,
     <<"set_sig_gen_built_in", <<10, "c_int32">>, SigGenBasicTables>>,
     <<"set_sig_gen_built_in", <<12, "c_int32">>, Ps4000aTables>>,
     <<"set_sig_gen_built_in", <<15, "c_int32">>, SigGenBasicTables>>,
     <<"set_sig_gen_built_in", <<15, "c_int32">>, SigGenTriggerTables>>}
Drivers ==
    {Ps4000a} \cup
    {[bound |-> [Ps4000aBound EXCEPT ![a[1]] = a[2]], tables |-> a[3]] : a \in Alternatives}

\* hasattr(self, name) and len(self.<name>.argtypes) == n
HasArity(sig, n) == sig # Absent /\ sig[1] = n
\* ... and self.<name>.argtypes[1] == t
HasShape(sig, n, t) == sig # Absent /\ sig[1] = n /\ sig[2] = t

\* the arguments of an operation, the answer of a native call with its
\* out-parameters, and a native call as the library issued it
NoArgs ==
    [timebase_id |-> 0, segment_index |-> 0, number_segments |-> 0,
     port_number |-> 0, enabled |-> TRUE, voltage_level |-> 0,
     wave_type |-> "", sweep_type |-> "", trigger_type |-> "",
     trigger_source |-> "", operation |-> ""]
NoReturn ==
    [code |-> "none", time_interval |-> 0, time_units |-> 0, max_samples |-> 0,
     is_ready |-> 0, max_adc |-> 0]
NativeCall(name, nargs, level) ==
    [name |-> name, nargs |-> nargs, logic_level |-> level, direction |-> None]
FlagAnswers == {"zero", "nonzero"}
StatusAnswers == {"PICO_OK", "PICO_INVALID_PARAMETER"}

others_configure == <<component, PICO_VOLTAGE_RANGE, vars_resolve, vars_set_channel,
                      vars_driver, vars_units, vars_capture, bound, tables>>

\* an operation is called: the caller has the outcome of the one before
BeginConfigure(op) ==
    /\ component = "configure"
    /\ cf_op = "none"
    /\ cf_op' = op
    /\ UNCHANGED others_configure

\* the outcome of an operation
Outcome(raised, native, answer, value) ==
    /\ cf_raised' = raised
    /\ cf_native' = native
    /\ cf_return' = answer
    /\ cf_value' = value

ConfigureReturn ==
    /\ component = "configure"
    /\ cf_op # "none"
    /\ cf_op' = "none"
    /\ device' = NoDevice
    /\ cf_args' = NoArgs
    /\ Outcome("none", <<>>, NoReturn, None)
    /\ UNCHANGED others_configure

\* the decorator refused the device: the operation raised TypeError
ConfigureRejected ==
    /\ cf_args' = NoArgs
    /\ Outcome("TypeError", <<>>, NoReturn, None)

(***************************************************************************)
(* Library.get_timebase and _python_get_timebase.  A float number of       *)
(* seconds is kept as a mantissa and a decimal exponent.                   *)
(***************************************************************************)
TimeUnits == {0, 3}
SampleCounts == {0, 8}
\* nanoseconds_result.time_interval * 1.e-9
NanosToSeconds(x) == [mantissa |-> x, exponent |-> -9]
TimebaseInfo(timebase_id, time_interval, time_units, max_samples, segment_id) ==
    [timebase_id |-> timebase_id, time_interval |-> time_interval,
     time_units |-> time_units, max_samples |-> max_samples, segment_id |-> segment_id]

\* which branch of _python_get_timebase a driver takes
TimebaseForm(b) ==
    IF HasShape(b.get_timebase, 7, "c_int16") THEN "legacy"
    ELSE IF HasShape(b.get_timebase2, 7, "c_uint32") THEN "timebase2"
    ELSE "none"
TimebaseAnswers(form) ==
    {[NoReturn EXCEPT !.code = c, !.time_interval = ns, !.time_units = u,
                      !.max_samples = ms] :
        c \in (IF form = "legacy" THEN FlagAnswers ELSE StatusAnswers),
        ns \in 0 .. MaxNanos,
        u \in (IF form = "legacy" THEN TimeUnits ELSE {0}),
        ms \in SampleCounts}

\* the TimebaseInfo of _python_get_timebase, in nanoseconds
TimebaseWithoutSegment(form, timebase_id, segment_index, answer) ==
    TimebaseInfo(timebase_id, answer.time_interval, Some(answer.time_units),
                 answer.max_samples, None)
python_get_timebase(form, timebase_id, segment_index, answer) ==
    IF form = "legacy"
    THEN TimebaseInfo(timebase_id, answer.time_interval, Some(answer.time_units),
                      answer.max_samples, None)
    ELSE TimebaseInfo(timebase_id, answer.time_interval, None,
                      answer.max_samples, Some(segment_index))

GetTimebaseMethod ==
    /\ \E tid \in TimebaseIds, seg \in SegmentIndexes :
         /\ cf_args' = [NoArgs EXCEPT !.timebase_id = tid, !.segment_index = seg]
         /\ LET form == TimebaseForm(bound)
            IN  IF form = "none"
                THEN Outcome("NotImplementedError", <<>>, NoReturn, None)
                ELSE \E answer \in TimebaseAnswers(form) :
                       LET call == NativeCall(IF form = "legacy" THEN "get_timebase"
                                              ELSE "get_timebase2", 7, None)
                           ns_result == python_get_timebase(form, tid, seg, answer)
                           failed == IF form = "legacy" THEN answer.code = "zero"
                                     ELSE answer.code # "PICO_OK"
                       IN  IF failed
                           THEN Outcome("InvalidTimebaseError", <<call>>,
                                        [NoReturn EXCEPT !.code = answer.code], None)
                           ELSE Outcome("none", <<call>>, answer,
                                        Some(TimebaseInfo(ns_result.timebase_id,
                                               NanosToSeconds(ns_result.time_interval),
                                               ns_result.time_units,
                                               ns_result.max_samples,
                                               ns_result.segment_id)))
GetTimebase ==
    /\ BeginConfigure("get_timebase")
    /\ check_device_impl(ConfigureRejected, GetTimebaseMethod)

(***************************************************************************)
(* Library.set_null_trigger                                                *)
(***************************************************************************)
\* the threshold direction table set_null_trigger reads NONE from, if any
ThresholdTablePerModelFirst(tbls) ==
    IF "THRESHOLD_DIRECTION" \in tbls THEN "THRESHOLD_DIRECTION"
    ELSE IF "PICO_THRESHOLD_DIRECTION" \in tbls THEN "PICO_THRESHOLD_DIRECTION"
    ELSE "none"
ThresholdTable(tbls) ==
    IF "PICO_THRESHOLD_DIRECTION" \in tbls THEN "PICO_THRESHOLD_DIRECTION"
    ELSE IF "THRESHOLD_DIRECTION" \in tbls THEN "THRESHOLD_DIRECTION"
    ELSE "none"

\* PS2000_NONE = 5, and NONE of a threshold direction enum (RISING, ENTER, NONE)
PS2000_NONE == 5
ThresholdDirectionNone == 2
\* the direction argument: where it was read and its value
LiteralDirection == [table |-> "none", key |-> "PS2000_NONE", value |-> PS2000_NONE]
TableDirection(table) ==
    [table |-> table,
     key |-> IF table = "PICO_THRESHOLD_DIRECTION" THEN "NONE" ELSE "<NAME>_NONE",
     value |-> ThresholdDirectionNone]
\* a native trigger call with its direction argument
TriggerCall(name, nargs, direction) ==
    [NativeCall(name, nargs, None) EXCEPT !.direction = Some(direction)]

SetNullTriggerMethod ==
    /\ cf_args' = NoArgs
    /\ IF HasArity(bound.set_trigger, 6)
       THEN \E code \in FlagAnswers :
              Outcome(IF code = "zero" THEN "InvalidTriggerParameters" ELSE "none",
                      <<TriggerCall("set_trigger", 6, LiteralDirection)>>,
                      [NoReturn EXCEPT !.code = code], None)
       ELSE IF HasArity(bound.set_simple_trigger, 7)
       THEN IF ThresholdTable(tables) = "none"
            THEN Outcome("NotImplementedError", <<>>, NoReturn, None)
            ELSE \E status \in StatusAnswers :
                   Outcome(IF status # "PICO_OK" THEN "InvalidTriggerParameters" ELSE "none",
                           <<TriggerCall("set_simple_trigger", 7,
                                         TableDirection(ThresholdTable(tables)))>>,
                           [NoReturn EXCEPT !.code = status], None)
       ELSE Outcome("NotImplementedError", <<>>, NoReturn, None)
SetNullTrigger ==
    /\ BeginConfigure("set_null_trigger")
    /\ check_device_impl(ConfigureRejected, SetNullTriggerMethod)

(***************************************************************************)
(* Library.is_ready: the 1-parameter form returns the readiness itself,    *)
(* the 2-parameter form a status and the readiness in an out-parameter.    *)
(***************************************************************************)
\* what the driver can write to the is_ready out-parameter
ReadyFlags == {0, 1, -1}
\* bool(return_code) of the 1-parameter form, bool(is_ready.value) of the other
ReadyFromReturnCode(nargs, code, flag) == code = "nonzero"
is_ready_value(nargs, code, flag) ==
    IF nargs = 1 THEN code = "nonzero" ELSE flag # 0

IsReadyMethod ==
    /\ cf_args' = NoArgs
    /\ IF HasArity(bound.ready, 1)
       THEN \E code \in FlagAnswers :
              Outcome("none", <<NativeCall("ready", 1, None)>>,
                      [NoReturn EXCEPT !.code = code], Some(is_ready_value(1, code, 0)))
       ELSE IF HasArity(bound.is_ready, 2)
       THEN \E status \in StatusAnswers, flag \in ReadyFlags :
              IF status # "PICO_OK"
              THEN Outcome("InvalidCaptureParameters", <<NativeCall("is_ready", 2, None)>>,
                           [NoReturn EXCEPT !.code = status], None)
              ELSE Outcome("none", <<NativeCall("is_ready", 2, None)>>,
                           [NoReturn EXCEPT !.code = status, !.is_ready = flag],
                           Some(is_ready_value(2, status, flag)))
       ELSE Outcome("NotImplementedError", <<>>, NoReturn, None)
IsReady ==
    /\ BeginConfigure("is_ready")
    /\ check_device_impl(ConfigureRejected, IsReadyMethod)

(***************************************************************************)
(* Library.maximum_value and Library.memory_segments                       *)
(***************************************************************************)
DefaultMaximumValue == 2 ^ 15 - 1
\* what the driver can write to max_adc
AdcMaxima == {32767, 32512}

\* the value of self._maximum_value(...) is not looked at
MaximumValueMethod ==
    /\ cf_args' = NoArgs
    /\ IF bound.maximum_value = Absent
       THEN Outcome("none", <<>>, NoReturn, Some(DefaultMaximumValue))
       ELSE \E status \in StatusAnswers, adc \in AdcMaxima :
              LET written == IF status = "PICO_OK" THEN adc ELSE 0
              IN  Outcome("none", <<NativeCall("maximum_value", 2, None)>>,
                          [NoReturn EXCEPT !.code = status, !.max_adc = written],
                          Some(written))
MaximumValue ==
    /\ BeginConfigure("maximum_value")
    /\ check_device_impl(ConfigureRejected, MaximumValueMethod)

SegmentCounts == {1, 2}
MemorySegmentsMethod ==
    /\ \E n \in SegmentCounts :
         /\ cf_args' = [NoArgs EXCEPT !.number_segments = n]
         /\ IF bound.memory_segments = Absent
            THEN Outcome("DeviceCannotSegmentMemoryError", <<>>, NoReturn, None)
            ELSE \E status \in StatusAnswers, ms \in SampleCounts :
                   IF status # "PICO_OK"
                   THEN Outcome("InvalidMemorySegmentsError",
                                <<NativeCall("memory_segments", 3, None)>>,
                                [NoReturn EXCEPT !.code = status], None)
                   ELSE Outcome("none", <<NativeCall("memory_segments", 3, None)>>,
                                [NoReturn EXCEPT !.code = status, !.max_samples = ms],
                                Some(ms))
MemorySegments ==
    /\ BeginConfigure("memory_segments")
    /\ check_device_impl(ConfigureRejected, MemorySegmentsMethod)

(***************************************************************************)
(* voltage_to_logic_level and Library.set_digital_port.  A voltage is a    *)
(* whole number of tenths of a volt.  int() rounds towards zero.           *)
(***************************************************************************)
Voltages == (0 - MaxDeciVolts) .. MaxDeciVolts
LogicLevelMax == 32767
Min(a, b) == IF a < b THEN a ELSE b
Max(a, b) == IF a > b THEN a ELSE b
\* int(x) of the quotient n / d, d > 0
IntOfQuotient(n, d) == IF n >= 0 THEN n \div d ELSE 0 - ((0 - n) \div d)
\* clamped_voltage = min(max(-5, voltage), 5); int(clamped_voltage * (32767 / 5))
UnclampedLogicLevel(voltage) == IntOfQuotient(voltage * LogicLevelMax, 50)
voltage_to_logic_level(voltage) ==
    LET clamped_voltage == Min(Max(0 - 50, voltage), 50)
    IN  IntOfQuotient(clamped_voltage * LogicLevelMax, 50)

\* the ports of a <NAME>_DIGITAL_PORT table, and the ports a caller may name
DigitalPorts == {0, 1}
PortNumbers == {0, 1, 2}

SetDigitalPortMethod ==
    /\ \E port \in PortNumbers, en \in BOOLEAN, v \in Voltages :
         /\ cf_args' = [NoArgs EXCEPT !.port_number = port, !.enabled = en,
                                      !.voltage_level = v]
         /\ IF HasArity(bound.set_digital_port, 4)
            THEN LET logic_level == voltage_to_logic_level(v)
                 IN  IF "DIGITAL_PORT" \notin tables
                     THEN Outcome("NotImplementedError", <<>>, NoReturn, None)
                     ELSE IF port \notin DigitalPorts
                     THEN Outcome("KeyError", <<>>, NoReturn, None)
                     ELSE \E status \in StatusAnswers :
                            Outcome(IF status # "PICO_OK" THEN "PicoError" ELSE "none",
                                    <<NativeCall("set_digital_port", 4, Some(logic_level))>>,
                                    [NoReturn EXCEPT !.code = status], None)
            ELSE Outcome("NotImplementedError", <<>>, NoReturn, None)
SetDigitalPort ==
    /\ BeginConfigure("set_digital_port")
    /\ check_device_impl(ConfigureRejected, SetDigitalPortMethod)

(***************************************************************************)
(* Library.set_sig_gen_built_in.  A symbolic argument is looked up in the  *)
(* table of the driver's prefix; a missing table (AttributeError) and a    *)
(* missing key (KeyError) both end in ArgumentOutOfRangeError.             *)
(***************************************************************************)
\* keys of the ps4000a tables, less the prefix, and a name in none of them
TableKeys(tbl) ==
    IF tbl = "WAVE_TYPE" THEN {"SINE", "SQUARE"}
    ELSE IF tbl = "SWEEP_TYPE" THEN {"UP", "DOWN"}
    ELSE IF tbl = "SIGGEN_TRIG_TYPE" THEN {"RISING", "FALLING"}
    ELSE IF tbl = "SIGGEN_TRIG_SOURCE" THEN {"NONE", "SCOPE_TRIG"}
    ELSE IF tbl = "EXTRA_OPERATIONS" THEN {"ES_OFF", "WHITENOISE"}
    ELSE {}
SymbolsFor(tbl) == {CHOOSE k \in TableKeys(tbl) : TRUE, "BOGUS"}
\* getattr(self, f"{prefix}_<tbl>")[f"{prefix}_{name.upper()}"] succeeds
LooksUp(tbls, tbl, name) == tbl \in tbls /\ name \in TableKeys(tbl)

\* the exception of the lookups, "none" when all succeed
BasicLookupsOnlyWave(tbls, args) ==
    IF LooksUp(tbls, "WAVE_TYPE", args.wave_type) THEN "none"
    ELSE "ArgumentOutOfRangeError"
BasicLookups(tbls, args) ==
    IF /\ LooksUp(tbls, "WAVE_TYPE", args.wave_type)
       /\ LooksUp(tbls, "SWEEP_TYPE", args.sweep_type)
    THEN "none" ELSE "ArgumentOutOfRangeError"
TriggerLookups(tbls, args) ==
    IF /\ LooksUp(tbls, "SIGGEN_TRIG_TYPE", args.trigger_type)
       /\ LooksUp(tbls, "SIGGEN_TRIG_SOURCE", args.trigger_source)
       /\ LooksUp(tbls, "EXTRA_OPERATIONS", args.operation)
    THEN "none" ELSE "ArgumentOutOfRangeError"

SetSigGenBuiltInMethod ==
    /\ \E w \in SymbolsFor("WAVE_TYPE"), sw \in SymbolsFor("SWEEP_TYPE"),
          tt \in SymbolsFor("SIGGEN_TRIG_TYPE"), ts \in SymbolsFor("SIGGEN_TRIG_SOURCE"),
          op \in SymbolsFor("EXTRA_OPERATIONS") :
         LET args == [NoArgs EXCEPT !.wave_type = w, !.sweep_type = sw,
                                    !.trigger_type = tt, !.trigger_source = ts,
                                    !.operation = op]
             arity == bound.set_sig_gen_built_in[1]
         IN  /\ cf_args' = args
             /\ IF BasicLookups(tables, args) # "none"
                THEN Outcome(BasicLookups(tables, args), <<>>, NoReturn, None)
                ELSE IF arity = 10
                THEN \E status \in StatusAnswers :
                       Outcome(IF status # "PICO_OK" THEN "PicoError" ELSE "none",
                               <<NativeCall("set_sig_gen_built_in", 10, None)>>,
                               [NoReturn EXCEPT !.code = status], None)
                ELSE IF arity = 15
                THEN IF TriggerLookups(tables, args) # "none"
                     THEN Outcome(TriggerLookups(tables, args), <<>>, NoReturn, None)
                     ELSE \E status \in StatusAnswers :
                            Outcome(IF status # "PICO_OK" THEN "PicoError" ELSE "none",
                                    <<NativeCall("set_sig_gen_built_in", 15, None)>>,
                                    [NoReturn EXCEPT !.code = status], None)
                ELSE Outcome("NotImplementedError", <<>>, NoReturn, None)
SetSigGenBuiltIn ==
    /\ BeginConfigure("set_sig_gen_built_in")
    /\ check_device_impl(ConfigureRejected, SetSigGenBuiltInMethod)

(***************************************************************************)
(* _resolve_range applied to drawn arguments.                              *)
(***************************************************************************)
Resolve ==
    /\ component = "resolve"
    /\ rr_pc = "call"
    /\ resolved' = resolve_range(PICO_VOLTAGE_RANGE, signal_peak, exclude)
    /\ rr_pc' = "done"
    /\ UNCHANGED <<component, device, PICO_VOLTAGE_RANGE, signal_peak, exclude, vars_set_channel,
                   vars_driver, vars_units, vars_capture, vars_configure>>

(***************************************************************************)
(* Initial states.  A component that a behaviour does not exercise stays   *)
(* in its idle state.                                                      *)
(***************************************************************************)
ResolveIdle ==
    /\ signal_peak = 0 /\ exclude = {} /\ resolved = NotCalled /\ rr_pc = "off"
SetChannelIdle ==
    /\ sc_pc = "off" /\ sc_argtypes = <<6, "c_int32">> /\ enabled = TRUE
    /\ range_peak = Inf /\ analog_offset = None /\ excluded = {}
    /\ range_id = None /\ max_voltage = None /\ sc_error = "none"
    /\ attempts = <<>> /\ sc_last = "none"

UnitsIdle ==
    /\ open_argtypes = 2 /\ info_argtypes = 5 /\ units = {} /\ serial_of = <<>>
    /\ driver_open = {} /\ devices = {} /\ u_pc = "off" /\ u_op = "none"
    /\ serial = None /\ keys = <<>> /\ handles = <<>> /\ device_infos = <<>>
    /\ open_handles = <<>> /\ temp_handle = 0 /\ handle = -1 /\ idx = 1
    /\ u_raised = "none" /\ u_value = <<>> /\ u_names = {} /\ before = {}
    /\ n_open = 0 /\ n_close = 0 /\ n_info = 0
    /\ ou_handle = None /\ dispatched = {} /\ close_status = "none"

CaptureIdle ==
    /\ stop_restype = "c_uint32" /\ gv_argtypes = <<7, "c_uint32">>
    /\ cap_op = "none" /\ cap_raised = "none" /\ cap_native = <<>>
    /\ native_return = [type |-> "int", value |-> "none"]
    /\ active_channels = <<>> /\ overflow = 0 /\ overflow_warning = {}
    /\ rb_argtypes = 8 /\ armed = FALSE /\ armed_at_call = FALSE
    /\ pico_channel = ChannelTable /\ digital_ports = <<>>
    /\ buffers = <<>> /\ rb_args = NoRunBlockArgs /\ rb_call = NoRunBlockCall

ConfigureIdle ==
    /\ bound = Ps4000aBound /\ tables = Ps4000aTables
    /\ cf_op = "none" /\ cf_args = NoArgs /\ cf_raised = "none"
    /\ cf_native = <<>> /\ cf_return = NoReturn /\ cf_value = None

InitResolve ==
    /\ component = "resolve"
    /\ device = NoDevice
    /\ PICO_VOLTAGE_RANGE \in Tables
    /\ signal_peak \in Peaks
    /\ exclude \in SUBSET RangeIds
    /\ resolved = NotCalled
    /\ rr_pc = "call"
    /\ SetChannelIdle
    /\ UnitsIdle
    /\ CaptureIdle
    /\ ConfigureIdle

\* set_channel(device, channel_name, enabled, coupling, range_peak, analog_offset)
\* at its call
InitSetChannel ==
    /\ component = "set_channel"
    /\ device = NoDevice
    /\ PICO_VOLTAGE_RANGE \in Tables
    /\ sc_argtypes \in SetChannelArgtypes
    /\ enabled \in BOOLEAN
    /\ range_peak \in Peaks
    /\ analog_offset \in {None, Some(1)}
    /\ sc_pc = "call"
    /\ excluded = {} /\ range_id = None /\ max_voltage = None
    /\ sc_error = "none" /\ attempts = <<>> /\ sc_last = "none"
    /\ ResolveIdle
    /\ UnitsIdle
    /\ CaptureIdle
    /\ ConfigureIdle

\* a driver with up to MaxUnits connected units, none of them open
InitUnits ==
    /\ component = "units"
    /\ device = NoDevice
    /\ PICO_VOLTAGE_RANGE = <<>>
    /\ open_argtypes \in {0, 2, 3}
    /\ info_argtypes \in {4, 5, 6}
    /\ \E k \in 0 .. MaxUnits : units = 1 .. k
    /\ serial_of \in [units -> Serials]
    /\ driver_open = {} /\ devices = {} /\ u_pc = "idle" /\ u_op = "none"
    /\ serial = None /\ keys = <<>> /\ handles = <<>> /\ device_infos = <<>>
    /\ open_handles = <<>> /\ temp_handle = 0 /\ handle = -1 /\ idx = 1
    /\ u_raised = "none" /\ u_value = <<>> /\ u_names = {} /\ before = {}
    /\ n_open = 0 /\ n_close = 0 /\ n_info = 0
    /\ ou_handle = None /\ dispatched = {} /\ close_status = "none"
    /\ ResolveIdle
    /\ SetChannelIdle
    /\ CaptureIdle
    /\ ConfigureIdle

\* the capture entry points of a driver: those of ps4000a, a driver that differs
\* from it in one of them or in declaring digital ports, and a driver with the
\* legacy form of each
Ps4000aCapture ==
    [stop_restype |-> Ps4000aOther.stop, gv_argtypes |-> Ps4000aOther.get_values,
     rb_argtypes |-> Ps4000aOther.run_block, digital_ports |-> <<>>]
CaptureDrivers ==
    {[Ps4000aCapture EXCEPT !.stop_restype = r] : r \in {"c_int16", "c_uint32"}}
    \cup {[Ps4000aCapture EXCEPT !.gv_argtypes = g] : g \in GetValuesArgtypes}
    \cup {[Ps4000aCapture EXCEPT !.rb_argtypes = a] : a \in RunBlockArgtypes}
    \cup {[Ps4000aCapture EXCEPT !.digital_ports = t] : t \in DigitalPortTables}
    \cup {[stop_restype |-> "c_int16", gv_argtypes |-> <<7, "c_int16">>,
           rb_argtypes |-> 5, digital_ports |-> <<>>]}

\* a driver binding, with no capture operation called yet
InitCapture ==
    /\ component = "capture"
    /\ device = NoDevice
    /\ PICO_VOLTAGE_RANGE = <<>>
    /\ \E d \in CaptureDrivers :
         /\ stop_restype = d.stop_restype /\ gv_argtypes = d.gv_argtypes
         /\ rb_argtypes = d.rb_argtypes /\ digital_ports = d.digital_ports
    /\ cap_op = "none" /\ cap_raised = "none" /\ cap_native = <<>>
    /\ native_return = [type |-> "int", value |-> "none"]
    /\ active_channels = <<>> /\ overflow = 0 /\ overflow_warning = {}
    /\ armed = FALSE /\ armed_at_call = FALSE
    /\ pico_channel = ChannelTable
    /\ buffers = <<>> /\ rb_args = NoRunBlockArgs /\ rb_call = NoRunBlockCall
    /\ ResolveIdle
    /\ SetChannelIdle
    /\ UnitsIdle
    /\ ConfigureIdle

\* a driver module, with none of its other operations called yet
InitConfigure ==
    /\ component = "configure"
    /\ device = NoDevice
    /\ PICO_VOLTAGE_RANGE = <<>>
    /\ \E d \in Drivers : bound = d.bound /\ tables = d.tables
    /\ cf_op = "none" /\ cf_args = NoArgs /\ cf_raised = "none"
    /\ cf_native = <<>> /\ cf_return = NoReturn /\ cf_value = None
    /\ ResolveIdle
    /\ SetChannelIdle
    /\ UnitsIdle
    /\ CaptureIdle

NextResolve == Resolve
NextSetChannel == SetChannelEnter \/ SetChannelResolve \/ SetChannelCall
NextUnits ==
    \/ ListUnitsCall \/ ListUnitsOpen \/ ListUnitsClose
    \/ OpenUnitDirect \/ OpenUnitLegacyCall \/ OpenUnitLegacyStep \/ OpenUnitLegacyClose
    \/ CloseUnit
    \/ GetUnitInfo
NextCapture == Stop \/ GetValues \/ RunBlock \/ CaptureReturn
NextConfigure ==
    \/ GetTimebase \/ SetNullTrigger \/ IsReady \/ MaximumValue \/ MemorySegments
    \/ SetDigitalPort \/ SetSigGenBuiltIn
    \/ ConfigureReturn

SpecResolve == InitResolve /\ [][NextResolve]_vars
SpecSetChannel == InitSetChannel /\ [][NextSetChannel]_vars
\* The interpreter always executes the next statement of a running call.
FairSetChannel == SpecSetChannel /\ WF_vars(NextSetChannel)
SpecUnits == InitUnits /\ [][NextUnits]_vars
SpecCapture == InitCapture /\ [][NextCapture]_vars
SpecConfigure == InitConfigure /\ [][NextConfigure]_vars

Init == InitResolve \/ InitSetChannel \/ InitUnits \/ InitCapture \/ InitConfigure
Next == NextResolve \/ NextSetChannel \/ NextUnits \/ NextCapture \/ NextConfigure
Spec == Init /\ [][Next]_vars

(***************************************************************************)
(* Properties of the range resolver.                                       *)
(***************************************************************************)
\* the table entries wide enough for the requested peak
Covering(tbl, v) == {i \in DOMAIN tbl : tbl[i][2] >= v}

\* C1: with nothing excluded, _resolve_range returns a table entry whose max
\* voltage is the least among all entries with max voltage >= the peak, whatever
\* the order of the table, and raises ArgumentOutOfRangeError exactly when no
\* entry has max voltage >= the peak.
C1_ResolveTightestFit ==
    (rr_pc = "done" /\ exclude = {}) =>
        LET cover == Covering(PICO_VOLTAGE_RANGE, signal_peak)
        IN  IF cover = {}
            THEN resolved.raised = "ArgumentOutOfRangeError"
            ELSE /\ resolved.raised = "none"
                 /\ \E i \in cover :
                        PICO_VOLTAGE_RANGE[i] = <<resolved.range_id[1], resolved.max_voltage[1]>>
                 /\ \A j \in cover : resolved.max_voltage[1] <= PICO_VOLTAGE_RANGE[j][2]

\* a table in no order: the tightest fit is its second item, the first item is
\* wider and has the larger id, the third is too narrow
C1_Witness ==
    /\ rr_pc = "done" /\ exclude = {}
    /\ Len(PICO_VOLTAGE_RANGE) = 3
    /\ resolved.raised = "none"
    /\ PICO_VOLTAGE_RANGE[2] = <<resolved.range_id[1], resolved.max_voltage[1]>>
    /\ PICO_VOLTAGE_RANGE[1][2] > PICO_VOLTAGE_RANGE[2][2]
    /\ PICO_VOLTAGE_RANGE[1][1] > PICO_VOLTAGE_RANGE[2][1]
    /\ PICO_VOLTAGE_RANGE[3][2] < signal_peak

\* C6: _resolve_range never returns an excluded id, and raises
\* ArgumentOutOfRangeError once every id with max voltage >= the peak is excluded.
C6_ExclusionMonotone ==
    rr_pc = "done" =>
        /\ resolved.raised = "none" => resolved.range_id[1] \notin exclude
        /\ {PICO_VOLTAGE_RANGE[i][1] : i \in Covering(PICO_VOLTAGE_RANGE, signal_peak)}
              \subseteq exclude
           => resolved.raised = "ArgumentOutOfRangeError"

\* candidates exist, all of them are excluded, and the resolver raises
C6_Witness ==
    /\ rr_pc = "done"
    /\ Cardinality(Covering(PICO_VOLTAGE_RANGE, signal_peak)) >= 2
    /\ resolved.raised = "ArgumentOutOfRangeError"

(***************************************************************************)
(* Properties of set_channel.                                              *)
(***************************************************************************)
SetChannelOver == sc_pc \in {"returned", "raised"}

\* the decorator let the call through to the method body (or no call was made)
Admitted == device = NoDevice \/ (device.is_device /\ device.driver = "self")
\* a call of set_channel whose device the decorator accepted
SetChannelAdmitted == component = "set_channel" /\ sc_pc # "call" /\ Admitted

\* C2: every call of set_channel terminates, whatever the enabled flag and
\* whatever the driver answers: it ends on acceptance or on an exception.
C2_SetChannelTerminates == (component = "set_channel") ~> SetChannelOver

\* C5: set_channel with enabled=True and the default range_peak (infinity) issues
\* the native set-channel call with the widest range of the table.
C5_DefaultPeakSelectsWidest ==
    ( /\ SetChannelAdmitted /\ SetChannelOver
      /\ enabled /\ range_peak = Inf
      /\ PICO_VOLTAGE_RANGE # <<>>
      /\ SendsNative(sc_argtypes, analog_offset) )
    => /\ attempts # <<>>
       /\ attempts[1].range_id \in TableIds(PICO_VOLTAGE_RANGE)
       /\ \A i \in DOMAIN PICO_VOLTAGE_RANGE :
             PICO_VOLTAGE_RANGE[i][2] <= VoltageOf(PICO_VOLTAGE_RANGE, attempts[1].range_id)

\* C8: under the status-code forms, when the driver answers PICO_INVALID_CHANNEL,
\* set_channel with enabled=False returns normally (with None) and set_channel
\* with enabled=True raises ArgumentOutOfRangeError.
C8_DisableMissingChannel ==
    (IsStatusForm(sc_argtypes) /\ sc_last = "PICO_INVALID_CHANNEL") =>
        IF enabled
        THEN sc_pc = "raised" /\ sc_error = "ArgumentOutOfRangeError"
        ELSE sc_pc = "returned" /\ sc_error = "none" /\ max_voltage = None

\* a missing channel was disabled under the 5-parameter status-code form
C8_Witness ==
    /\ sc_argtypes = <<5, "c_int32">>
    /\ sc_last = "PICO_INVALID_CHANNEL"
    /\ ~enabled
    /\ sc_pc = "returned"
    /\ Len(attempts) = 1 /\ attempts[1].enabled = 0

\* C15: with a 5-parameter set-channel entry point a given analog_offset ends
\* set_channel in ArgumentOutOfRangeError with no native call; with a
\* 6-parameter one every native call carries the given offset, or 0.0 when the
\* caller gave none.
C15_AnalogOffsetByForm ==
    SetChannelAdmitted =>
        /\ (sc_argtypes[1] = 5 /\ analog_offset # None) =>
              /\ attempts = <<>>
              /\ sc_pc # "returned"
              /\ sc_pc = "raised" => sc_error = "ArgumentOutOfRangeError"
        /\ sc_argtypes[1] = 6 =>
              \A i \in DOMAIN attempts :
                  attempts[i].analog_offset =
                      IF analog_offset = None THEN Some(0) ELSE analog_offset

\* a range was resolved and the call was refused for its offset
C15_Witness ==
    /\ SetChannelAdmitted /\ sc_pc = "raised"
    /\ sc_argtypes[1] = 5 /\ analog_offset # None
    /\ range_id # None
    /\ sc_error = "ArgumentOutOfRangeError" /\ attempts = <<>>

\* C16: set_channel returns the max voltage of the range of the native call the
\* driver accepted, never that of a rejected attempt, and None when disabling.
C16_ReturnsAcceptedRangeVoltage ==
    (SetChannelAdmitted /\ sc_pc = "returned") =>
        IF enabled
        THEN /\ attempts # <<>>
             /\ sc_last \in {"nonzero", "PICO_OK"}
             /\ LET last == attempts[Len(attempts)]
                IN  /\ last.range_id \notin excluded
                    /\ last.range_id \in TableIds(PICO_VOLTAGE_RANGE)
                    /\ max_voltage = Some(VoltageOf(PICO_VOLTAGE_RANGE, last.range_id))
        ELSE max_voltage = None

\* the driver rejected a first range and accepted a second one
C16_Witness ==
    /\ component = "set_channel" /\ sc_pc = "returned" /\ enabled
    /\ Len(attempts) = 2
    /\ attempts[1].range_id \in excluded
    /\ VoltageOf(PICO_VOLTAGE_RANGE, attempts[1].range_id)
          # VoltageOf(PICO_VOLTAGE_RANGE, attempts[2].range_id)

\* the driver's latest answer rejected the range, in either convention
RangeRejectedByDriver == sc_last \in {"zero", "PICO_INVALID_VOLTAGE_RANGE"}

\* C21: a range rejection by the driver (zero return in the 16-bit form, status
\* PICO_INVALID_VOLTAGE_RANGE in the status forms) is caught by set_channel, the
\* rejected id joins the exclusion set, and no later attempt uses a rejected id.
C21_RejectionExcludesRange ==
    SetChannelAdmitted =>
        /\ (RangeRejectedByDriver /\ sc_pc = "loop") => range_id[1] \in excluded
        /\ (RangeRejectedByDriver /\ sc_pc = "raised") => sc_error = "ArgumentOutOfRangeError"
        /\ sc_pc = "try" => range_id[1] \notin excluded

\* C27: with enabled=True the range ids of the successive native attempts are
\* pairwise distinct, their max voltages never decrease, and there are at most
\* as many native calls as table entries with max voltage >= range_peak.
C27_AttemptsDistinctAscendingBounded ==
    (SetChannelAdmitted /\ enabled) =>
        /\ \A i, j \in DOMAIN attempts :
              i < j => /\ attempts[i].range_id # attempts[j].range_id
                       /\ VoltageOf(PICO_VOLTAGE_RANGE, attempts[i].range_id)
                            <= VoltageOf(PICO_VOLTAGE_RANGE, attempts[j].range_id)
        /\ Len(attempts) <= Cardinality(Covering(PICO_VOLTAGE_RANGE, range_peak))

\* every entry of a three-entry table written widest first was tried, narrowest first
C27_Witness ==
    /\ component = "set_channel" /\ enabled
    /\ Len(PICO_VOLTAGE_RANGE) = 3 /\ Len(attempts) = 3
    /\ PICO_VOLTAGE_RANGE[1][2] > PICO_VOLTAGE_RANGE[2][2]
    /\ PICO_VOLTAGE_RANGE[2][2] > PICO_VOLTAGE_RANGE[3][2]
    /\ attempts[1].range_id = PICO_VOLTAGE_RANGE[3][1]
    /\ attempts[3].range_id = PICO_VOLTAGE_RANGE[1][1]

(***************************************************************************)
(* Properties of the unit lifecycle operations.                            *)
(***************************************************************************)
Ended(op) == component = "units" /\ u_pc = "idle" /\ u_op = op /\ Admitted

\* C3: when list_units returns, every handle it opened has been closed: the
\* driver's open handles are those open before the call, whatever the number of
\* connected units and however many calls came before.
C3_ListUnitsLeavesNoHandleOpen ==
    Ended("list_units") => driver_open = before /\ n_close = n_open - 1

\* list_units opened two units, met the not-found open and closed both
C3_Witness ==
    /\ Ended("list_units")
    /\ n_open = 3 /\ n_close = 2 /\ Len(u_value) = 2

\* C4: when the native open takes no serial, open-by-serial ends with either the
\* matching handle returned and the only handle of the call left open, or with
\* DeviceNotFoundError and no handle of the call left open.
C4_OpenBySerialLeaksNothing ==
    (Ended("open_unit") /\ serial # None /\ open_argtypes \notin {2, 3}) =>
        IF u_raised = "none"
        THEN /\ Len(u_value) = 1
             /\ u_value[1] \in units \ before
             /\ serial_of[u_value[1]] = serial[1]
             /\ driver_open = before \cup {u_value[1]}
        ELSE /\ u_raised = "DeviceNotFoundError"
             /\ driver_open = before

\* a unit with another serial was opened and closed before the match was found
C4_Witness ==
    /\ Ended("open_unit") /\ serial # None /\ open_argtypes \notin {2, 3}
    /\ u_raised = "none"
    /\ n_open = 2 /\ n_close = 1
    /\ driver_open = {u_value[1]}

\* C7: get_unit_info with a key outside PICO_INFO raises ArgumentOutOfRangeError
\* naming the invalid keys and issues no native call, whatever valid keys come
\* with it.
C7_InvalidKeyNoNativeCall ==
    (Ended("get_unit_info") /\ \E i \in DOMAIN keys : keys[i] \notin PICO_INFO) =>
        /\ u_raised = "ArgumentOutOfRangeError"
        /\ u_names = {k \in {keys[i] : i \in DOMAIN keys} : k \notin PICO_INFO}
        /\ n_info = 0

\* a valid key first and an invalid key second, with an info form bound
C7_Witness ==
    /\ Ended("get_unit_info")
    /\ keys = <<"PICO_VARIANT_INFO", "NOT_A_KEY">>
    /\ info_argtypes = 5
    /\ u_raised = "ArgumentOutOfRangeError"
    /\ n_info = 0

\* C11: open_unit returns a handle only when the native handle is >= 1 and
\* raises DeviceNotFoundError when it is <= 0; no Device the client obtained
\* holds a handle <= 0 and no native get-info or close call is issued with one.
C11_NoNonPositiveHandle ==
    component = "units" =>
        /\ \A h \in dispatched \cup devices : h >= 1
        /\ Ended("open_unit") =>
              IF ou_handle[1] >= 1
              THEN u_raised = "none" /\ u_value = ou_handle
              ELSE u_raised = "DeviceNotFoundError" /\ u_value = <<>>

\* the native open answered 0 while the client holds a Device from an earlier
\* open: the call raised and the client still holds only positive handles
C11_Witness ==
    /\ Ended("open_unit")
    /\ ou_handle = Some(0)
    /\ u_raised = "DeviceNotFoundError"
    /\ devices # {}

\* C28: list_units never raises DeviceNotFoundError: with K units to open it
\* issues K+1 native opens and K closes and returns K info records, one per unit
\* in the order the units were opened; with K = 0 it returns the empty list.
C28_ListUnitsCounts ==
    (component = "units" /\ u_op = "list_units") =>
        /\ u_raised = "none"
        /\ u_pc \in {"lu_loop", "lu_close"} =>
              /\ Len(device_infos) = Len(handles)
              /\ \A i \in DOMAIN handles :
                    device_infos[i].serial \in {serial_of[handles[i]], ""}
              /\ \A i, j \in DOMAIN handles : i # j => handles[i] # handles[j]
        /\ u_pc = "idle" =>
              LET K == Cardinality(units \ before)
              IN  /\ n_open = K + 1
                  /\ n_close = K
                  /\ Len(u_value) = K

\* two units with different serials were listed, the second unit first
C28_Witness ==
    /\ Ended("list_units")
    /\ units = {1, 2} /\ before = {}
    /\ serial_of[1] = "S1" /\ serial_of[2] = "S2"
    /\ Len(u_value) = 2
    /\ u_value[1].serial = "S2" /\ u_value[2].serial = "S1"
    /\ n_open = 3 /\ n_close = 2

(***************************************************************************)
(* Properties of stop and get_values.                                      *)
(***************************************************************************)
\* an operation on a capture whose device the decorator accepted has ended
CaptureEnded(op) == component = "capture" /\ cap_op = op /\ Admitted

\* the native stop call reported failure, in the convention of its return type
NativeStopFailed ==
    IF stop_restype = "c_int16"
    THEN native_return.value = "zero"
    ELSE native_return.value # "PICO_OK"

\* C9: stop raises InvalidCaptureParameters whenever the native stop call reports
\* failure: a zero return under a 16-bit return type, a status other than PICO_OK
\* otherwise.
C9_StopRaisesOnFailure ==
    (CaptureEnded("stop") /\ NativeStopFailed)
        => cap_raised = "InvalidCaptureParameters"

\* C10: get_values reports a requested channel in the overflow warning exactly
\* when the channel's bit, 1 shifted left by the channel index, is set in the
\* native overflow bit field.
C10_OverflowPerChannel ==
    (CaptureEnded("get_values") /\ cap_raised = "none") =>
        \A i \in DOMAIN active_channels :
            (active_channels[i] \in overflow_warning)
                <=> BitAnd(overflow, ShiftLeft(1, PICO_CHANNEL[active_channels[i]])) # 0

\* C14: a run_block called while a capture armed by an earlier run_block is
\* outstanding is rejected and issues no native run-block call.
C14_SecondRunBlockRejected ==
    (CaptureEnded("run_block") /\ armed_at_call) =>
        /\ cap_raised # "none"
        /\ cap_native = <<>>

\* the positions of the native calls of a name in the calls of the operation
CallsOf(name) == {i \in DOMAIN cap_native : cap_native[i] = name}

\* C22: in the current form get_values issues one native set-data-buffer call
\* per requested channel, all of them before the single native get-values call;
\* when a set-data-buffer call answers a status other than PICO_OK it raises
\* InvalidCaptureParameters and issues no get-values call.
C22_BuffersBeforeSingleGetValues ==
    (CaptureEnded("get_values") /\ gv_argtypes = <<7, "c_uint32">>) =>
        LET n == Len(active_channels)
        IN  /\ Len(buffers) = Cardinality(CallsOf("set_data_buffer"))
            /\ Len(buffers) <= n
            /\ \A i \in DOMAIN buffers : buffers[i] = PICO_CHANNEL[active_channels[i]]
            /\ IF CallsOf("get_values") # {}
               THEN /\ CallsOf("get_values") = {n + 1}
                    /\ CallsOf("set_data_buffer") = 1 .. n
               ELSE /\ CallsOf("set_data_buffer") = DOMAIN cap_native
                    /\ cap_native # <<>>
                    /\ native_return.value # "PICO_OK"
                    /\ cap_raised = "InvalidCaptureParameters"

\* the buffer of the first channel was registered, that of the second was refused
C22_Witness ==
    /\ CaptureEnded("get_values") /\ gv_argtypes = <<7, "c_uint32">>
    /\ active_channels = <<"C", "A">>
    /\ buffers = <<2, 0>>
    /\ cap_native = <<"set_data_buffer", "set_data_buffer">>
    /\ cap_raised = "InvalidCaptureParameters"

\* the native run-block call reported failure, in the convention of its form
NativeRunBlockFailed ==
    IF rb_argtypes = 5 THEN native_return.value = "zero"
    ELSE native_return.value # "PICO_OK"

\* C24: run_block passes pre+post as one total with oversample in the
\* 5-parameter form, pre and post with the segment index and no oversample in the
\* 8-parameter form, and pre, post, oversample and segment index in the
\* 9-parameter form; the two callbacks of the 8- and 9-parameter forms are null;
\* a zero return (5) or a status other than PICO_OK (8, 9) raises
\* InvalidCaptureParameters.
C24_RunBlockArgumentsByForm ==
    (CaptureEnded("run_block") /\ rb_argtypes \in {5, 8, 9}) =>
        /\ cap_native = <<"run_block">>
        /\ rb_call.nargs = rb_argtypes
        /\ rb_call.timebase_id = Some(rb_args.timebase_id)
        /\ IF rb_argtypes = 5
           THEN /\ rb_call.no_of_samples = Some(rb_args.pre_samples + rb_args.post_samples)
                /\ rb_call.pre_samples = None /\ rb_call.post_samples = None
                /\ rb_call.oversample = Some(rb_args.oversample)
                /\ rb_call.segment_index = None
                /\ rb_call.callbacks = <<>>
           ELSE /\ rb_call.no_of_samples = None
                /\ rb_call.pre_samples = Some(rb_args.pre_samples)
                /\ rb_call.post_samples = Some(rb_args.post_samples)
                /\ rb_call.oversample =
                      IF rb_argtypes = 9 THEN Some(rb_args.oversample) ELSE None
                /\ rb_call.segment_index = Some(rb_args.segment_index)
                /\ rb_call.callbacks = <<None, None>>
        /\ cap_raised = IF NativeRunBlockFailed THEN "InvalidCaptureParameters" ELSE "none"

\* the 5-parameter form was given the total of 2 and 4 samples and refused it
C24_Witness ==
    /\ CaptureEnded("run_block") /\ rb_argtypes = 5
    /\ rb_args.pre_samples = 2 /\ rb_args.oversample = 2
    /\ rb_call.no_of_samples = Some(6)
    /\ cap_raised = "InvalidCaptureParameters"

\* C30: get_values leaves self.PICO_CHANNEL as it was, also on a driver that
\* declares a <NAME>_DIGITAL_PORT table: no retrieval adds or alters a channel.
C30_ChannelTableUnchanged ==
    component = "capture" => pico_channel = ChannelTable

(***************************************************************************)
(* Properties of get_timebase, set_sig_gen_built_in and set_digital_port.  *)
(***************************************************************************)
ConfigureEnded(op) == component = "configure" /\ cf_op = op /\ Admitted

\* C17: get_timebase returns a time_interval of the native nanoseconds times
\* 1e-9 in both forms; the legacy form gives time_units and no segment_id, the
\* timebase2 form gives no time_units and the requested segment index.
C17_TimebaseNormalised ==
    (ConfigureEnded("get_timebase") /\ cf_raised = "none") =>
        LET info == cf_value[1]
        IN  /\ info.time_interval = [mantissa |-> cf_return.time_interval, exponent |-> -9]
            /\ info.timebase_id = cf_args.timebase_id
            /\ IF cf_native[1].name = "get_timebase"
               THEN /\ info.time_units = Some(cf_return.time_units)
                    /\ info.segment_id = None
               ELSE /\ cf_native[1].name = "get_timebase2"
                    /\ info.time_units = None
                    /\ info.segment_id = Some(cf_args.segment_index)

\* the timebase2 form answered a query for segment 1
C17_Witness ==
    /\ ConfigureEnded("get_timebase") /\ cf_raised = "none"
    /\ cf_native[1].name = "get_timebase2"
    /\ cf_args.segment_index = 1
    /\ cf_return.time_interval = MaxNanos

\* the symbolic arguments that the lookup tables of the driver hold
BasicSymbolsKnown ==
    /\ LooksUp(tables, "WAVE_TYPE", cf_args.wave_type)
    /\ LooksUp(tables, "SWEEP_TYPE", cf_args.sweep_type)
TriggerSymbolsKnown ==
    /\ LooksUp(tables, "SIGGEN_TRIG_TYPE", cf_args.trigger_type)
    /\ LooksUp(tables, "SIGGEN_TRIG_SOURCE", cf_args.trigger_source)
    /\ LooksUp(tables, "EXTRA_OPERATIONS", cf_args.operation)
SigGenArity == bound.set_sig_gen_built_in[1]
SigGenCalledWith(n) ==
    /\ Len(cf_native) = 1
    /\ cf_native[1].name = "set_sig_gen_built_in" /\ cf_native[1].nargs = n

\* C18: set_sig_gen_built_in raises ArgumentOutOfRangeError with no native call
\* when wave_type or sweep_type is not in the driver's tables, and in the
\* 15-parameter form when trigger_type, trigger_source or operation is not;
\* with known symbols it calls the native entry point with 10 or 15 arguments
\* by its arity and raises NotImplementedError for any other arity.
C18_SigGenValidatesThenDispatches ==
    ConfigureEnded("set_sig_gen_built_in") =>
        IF ~BasicSymbolsKnown
        THEN cf_raised = "ArgumentOutOfRangeError" /\ cf_native = <<>>
        ELSE IF SigGenArity = 10 THEN SigGenCalledWith(10)
        ELSE IF SigGenArity = 15
        THEN IF ~TriggerSymbolsKnown
             THEN cf_raised = "ArgumentOutOfRangeError" /\ cf_native = <<>>
             ELSE SigGenCalledWith(15)
        ELSE cf_raised = "NotImplementedError" /\ cf_native = <<>>

\* the 15-parameter form refused an unknown trigger source after it accepted
\* the wave and sweep types
C18_Witness ==
    /\ ConfigureEnded("set_sig_gen_built_in")
    /\ SigGenArity = 15 /\ BasicSymbolsKnown
    /\ cf_args.trigger_source = "BOGUS"
    /\ cf_raised = "ArgumentOutOfRangeError" /\ cf_native = <<>>

\* C19: the logic level set_digital_port passes is voltage_to_logic_level of its
\* voltage: 0 at 0 V, 32767 from 5 V up, -32767 from -5 V down, within
\* [-32767, 32767], and never below the level of a lower voltage.
C19_LogicLevelSaturatesMonotone ==
    (ConfigureEnded("set_digital_port") /\ cf_native # <<>>) =>
        LET v == cf_args.voltage_level
            level == cf_native[1].logic_level[1]
        IN  /\ v = 0 => level = 0
            /\ v >= 50 => level = 32767
            /\ v <= -50 => level = -32767
            /\ level >= -32767 /\ level <= 32767
            /\ \A w \in Voltages :
                 /\ w <= v => voltage_to_logic_level(w) <= level
                 /\ w >= v => voltage_to_logic_level(w) >= level

\* a voltage above 5 V was passed to the driver as 32767
C19_Witness ==
    /\ ConfigureEnded("set_digital_port") /\ cf_native # <<>>
    /\ cf_args.voltage_level > 50
    /\ cf_native[1].logic_level = Some(32767)

(***************************************************************************)
(* Properties of is_ready and set_null_trigger.                            *)
(***************************************************************************)
\* C25: is_ready returns the truth value of the native return in the
\* 1-parameter form and that of the out-parameter in the 2-parameter form, where
\* a status other than PICO_OK raises InvalidCaptureParameters.
C25_IsReadyByForm ==
    ConfigureEnded("is_ready") =>
        IF HasArity(bound.ready, 1)
        THEN /\ cf_native = <<NativeCall("ready", 1, None)>>
             /\ cf_raised = "none"
             /\ cf_value = Some(cf_return.code = "nonzero")
        ELSE IF HasArity(bound.is_ready, 2)
        THEN /\ cf_native = <<NativeCall("is_ready", 2, None)>>
             /\ IF cf_return.code # "PICO_OK"
                THEN cf_raised = "InvalidCaptureParameters" /\ cf_value = None
                ELSE cf_raised = "none" /\ cf_value = Some(cf_return.is_ready # 0)
        ELSE cf_native = <<>>

\* the 2-parameter form answered PICO_OK and wrote -1 to the out-parameter
C25_Witness ==
    /\ ConfigureEnded("is_ready")
    /\ cf_native = <<NativeCall("is_ready", 2, None)>>
    /\ cf_return.code = "PICO_OK" /\ cf_return.is_ready = -1
    /\ cf_value = Some(TRUE)

\* C26: set_null_trigger calls a bound 6-parameter trigger entry point with the
\* direction 5 and raises InvalidTriggerParameters on a zero return; otherwise,
\* with a 7-parameter simple-trigger entry point, it reads NONE from
\* PICO_THRESHOLD_DIRECTION when that is not empty and from the per-model table
\* otherwise, raises NotImplementedError when there is neither, and raises
\* InvalidTriggerParameters on a status other than PICO_OK.
C26_NullTriggerDirection ==
    ConfigureEnded("set_null_trigger") =>
        IF HasArity(bound.set_trigger, 6)
        THEN /\ Len(cf_native) = 1 /\ cf_native[1].name = "set_trigger"
             /\ cf_native[1].direction[1].value = 5
             /\ cf_raised = IF cf_return.code = "zero"
                            THEN "InvalidTriggerParameters" ELSE "none"
        ELSE IF HasArity(bound.set_simple_trigger, 7)
        THEN IF {"PICO_THRESHOLD_DIRECTION", "THRESHOLD_DIRECTION"} \cap tables = {}
             THEN cf_raised = "NotImplementedError" /\ cf_native = <<>>
             ELSE /\ Len(cf_native) = 1 /\ cf_native[1].name = "set_simple_trigger"
                  /\ cf_native[1].direction[1].table =
                        IF "PICO_THRESHOLD_DIRECTION" \in tables
                        THEN "PICO_THRESHOLD_DIRECTION" ELSE "THRESHOLD_DIRECTION"
                  /\ cf_native[1].direction[1].key =
                        IF "PICO_THRESHOLD_DIRECTION" \in tables
                        THEN "NONE" ELSE "<NAME>_NONE"
                  /\ cf_raised = IF cf_return.code # "PICO_OK"
                                 THEN "InvalidTriggerParameters" ELSE "none"
        ELSE cf_native = <<>>

\* a driver with both tables: the direction came from the shared one, and the
\* driver refused the trigger
C26_Witness ==
    /\ ConfigureEnded("set_null_trigger")
    /\ {"PICO_THRESHOLD_DIRECTION", "THRESHOLD_DIRECTION"} \subseteq tables
    /\ Len(cf_native) = 1
    /\ cf_native[1].direction[1].table = "PICO_THRESHOLD_DIRECTION"
    /\ cf_raised = "InvalidTriggerParameters"

(***************************************************************************)
(* Properties of all the operations together.                              *)
(***************************************************************************)
\* the last native call of the operation answered with a failure value; the
\* 1-parameter ready entry point answers with the readiness, not with a flag
ConfigureNativeFailed ==
    /\ cf_native # <<>>
    /\ \/ cf_return.code \in StatusAnswers \ {"PICO_OK"}
       \/ cf_return.code = "zero" /\ cf_op # "is_ready"
CaptureNativeFailed == native_return.value \notin {"none", "nonzero", "PICO_OK"}

\* C12: close_unit, maximum_value, memory_segments, stop, run_block, is_ready,
\* get_values, set_null_trigger, get_timebase, set_digital_port and
\* set_sig_gen_built_in raise when their native call answered a failure value.
C12_NativeFailureRaises ==
    /\ (component = "configure" /\ cf_op # "none" /\ ConfigureNativeFailed)
          => cf_raised # "none"
    /\ (component = "capture" /\ cap_op # "none" /\ CaptureNativeFailed)
          => cap_raised # "none"
    /\ (Ended("close_unit") /\ close_status \notin {"none", "PICO_OK"})
          => u_raised # "none"

\* C13: an operation whose entry point has none of the signatures it knows
\* raises NotImplementedError without a native call.
C13_UnknownSignatureRaises ==
    /\ (Ended("get_unit_info") /\ InvalidInfoLines(keys) = {} /\ info_argtypes \notin {4, 5})
          => u_raised = "NotImplementedError" /\ n_info = 0
    /\ (SetChannelAdmitted /\ sc_pc \in {"returned", "raised"} /\ range_id # None
          /\ ~IsFlagForm(sc_argtypes) /\ ~IsStatusForm(sc_argtypes))
          => sc_error = "NotImplementedError" /\ attempts = <<>>
    /\ (CaptureEnded("get_values")
          /\ gv_argtypes \notin {<<7, "c_int16">>, <<7, "c_uint32">>})
          => cap_raised = "NotImplementedError" /\ cap_native = <<>>
    /\ (CaptureEnded("run_block") /\ rb_argtypes \notin {5, 8, 9})
          => cap_raised = "NotImplementedError" /\ cap_native = <<>>
    /\ (ConfigureEnded("get_timebase") /\ TimebaseForm(bound) = "none")
          => cf_raised = "NotImplementedError" /\ cf_native = <<>>
    /\ (ConfigureEnded("set_null_trigger") /\ ~HasArity(bound.set_trigger, 6)
          /\ ~HasArity(bound.set_simple_trigger, 7))
          => cf_raised = "NotImplementedError" /\ cf_native = <<>>
    /\ (ConfigureEnded("is_ready") /\ ~HasArity(bound.ready, 1)
          /\ ~HasArity(bound.is_ready, 2))
          => cf_raised = "NotImplementedError" /\ cf_native = <<>>
    /\ (ConfigureEnded("set_sig_gen_built_in") /\ BasicSymbolsKnown
          /\ SigGenArity \notin {10, 15})
          => cf_raised = "NotImplementedError" /\ cf_native = <<>>

\* C20: with the entry points and tables of ps4000a.py no operation ends in
\* NotImplementedError.
C20_Ps4000aFullyDispatched ==
    /\ (component = "units" /\ open_argtypes = Ps4000aOther.open_unit
          /\ info_argtypes = Ps4000aOther.get_unit_info)
          => u_raised # "NotImplementedError"
    /\ (component = "set_channel" /\ sc_argtypes = Ps4000aOther.set_channel)
          => sc_error # "NotImplementedError"
    /\ (component = "capture" /\ rb_argtypes = Ps4000aOther.run_block
          /\ stop_restype = Ps4000aOther.stop /\ gv_argtypes = Ps4000aOther.get_values)
          => cap_raised # "NotImplementedError"
    /\ (component = "configure" /\ bound = Ps4000aBound /\ tables = Ps4000aTables
          /\ cf_op \in {"get_timebase", "set_null_trigger", "is_ready",
                        "set_sig_gen_built_in"})
          => cf_raised # "NotImplementedError"

\* the driver's latest answer to set_channel is a failure that rejects no range
FailedOtherwise == sc_last \in {"PICO_INVALID_CHANNEL", "PICO_INVALID_PARAMETER"}

\* C23: get_timebase, run_block, is_ready, stop, set_null_trigger and
\* set_sig_gen_built_in issue at most one native call per invocation, and
\* set_channel makes no native call after one the driver failed otherwise than by
\* rejecting the range: the invocation is over, with that call its only one
\* when no range rejection came before it.
C23_NoRepeatedNativeCall ==
    /\ (component = "configure"
          /\ cf_op \in {"get_timebase", "is_ready", "set_null_trigger",
                        "set_sig_gen_built_in"})
          => Len(cf_native) <= 1
    /\ (component = "capture" /\ cap_op \in {"run_block", "stop"})
          => Len(cap_native) <= 1
    /\ (component = "set_channel" /\ FailedOtherwise)
          => /\ SetChannelOver
             /\ excluded = {} => Len(attempts) = 1

\* a wider range was left to try when the driver failed the first call with
\* PICO_INVALID_PARAMETER, and set_channel raised after that one call
C23_Witness ==
    /\ component = "set_channel" /\ enabled
    /\ sc_last = "PICO_INVALID_PARAMETER"
    /\ sc_pc = "raised" /\ sc_error = "ArgumentOutOfRangeError"
    /\ Len(attempts) = 1
    /\ Cardinality(Covering(PICO_VOLTAGE_RANGE, range_peak)) >= 2

\* the device argument of the current call is not a Device of this library
DeviceRefused ==
    /\ device \in DeviceArguments
    /\ ~device.is_device \/ device.driver # "self"

\* C29: every operation taking a device raises TypeError and issues no native
\* call when the device argument is not a Device instance whose driver is this
\* Library instance; the driver's open units and the armed capture stay as they were.
C29_ForeignDeviceRejected ==
    DeviceRefused =>
        /\ component \in {"units", "set_channel", "capture", "configure"}
        /\ component = "units" =>
              /\ u_op \in {"close_unit", "get_unit_info"}
              /\ u_pc = "idle" /\ u_raised = "TypeError"
              /\ n_open = 0 /\ n_close = 0 /\ n_info = 0
              /\ dispatched = {} /\ driver_open = before
        /\ component = "set_channel" =>
              /\ sc_pc = "raised" /\ sc_error = "TypeError"
              /\ attempts = <<>>
        /\ component = "capture" =>
              /\ cap_op \in {"stop", "get_values", "run_block"}
              /\ cap_raised = "TypeError" /\ cap_native = <<>>
              /\ armed = armed_at_call
        /\ component = "configure" =>
              /\ cf_op \in {"get_timebase", "set_null_trigger", "is_ready",
                            "maximum_value", "memory_segments", "set_digital_port",
                            "set_sig_gen_built_in"}
              /\ cf_raised = "TypeError" /\ cf_native = <<>>

\* get_values was given the Device of another library while a capture was armed
C29_Witness ==
    /\ component = "capture" /\ cap_op = "get_values"
    /\ device = [is_device |-> TRUE, driver |-> "other"]
    /\ armed
    /\ cap_raised = "TypeError" /\ cap_native = <<>>

=============================================================================
